---- MODULE Spec2Model ----
(***************************************************************************)
(* Task lifecycle of taskloop: the useTaskActions hook                     *)
(* (src/src/hooks/use-task-actions.ts) over the hosted relational store.   *)
(*                                                                         *)
(* The store (tables tasks, task_applications, profiles) is shared by all  *)
(* clients.  Every user runs one client holding the hook's three local     *)
(* lists: tasks (the tasks the user created), appliedTasks (the tasks the  *)
(* user applied to) and applications (the applications to the user's own   *)
(* tasks).  A handler reads the lists as they were when it was called (the *)
(* render's closure) and every store call of a handler may report an       *)
(* error.  One action is one whole handler call; a handler whose awaits    *)
(* other calls can fall between is also given as the steps between its     *)
(* awaits, with the call kept in inflight.                                 *)
(*                                                                         *)
(* The chat of the Chat page (src/src/pages/Chat.tsx): table messages with *)
(* the structured and the denormalized attachment columns, the chats list, *)
(* the active chat and the message list fetchMessages builds.  The ChatBox *)
(* component (src/unnamed/part_001) keeps a list of its own with the       *)
(* optimistic messages, the pending attachment and the uploading flag, and *)
(* handles the INSERT events of the active chat.                           *)
(***************************************************************************)
EXTENDS Integers, Sequences, FiniteSets

\* ---------------------------------------------------------------- bounds
\* the tasks the store holds in SpecCreate
MaxOwnTasks == 4
\* the handler calls of a run in which the store reports an error
MaxFaults == 1
\* the rows of table messages
MaxMessages == 2
\* the instants of the clock
MaxNow == 2
\* the handler calls that can be awaiting the store at one time
MaxCalls == 2

Users == {"u1", "u2", "u3"}
\* a requestor and one applicant
Pair == {"u1", "u2"}
Codes == {"c1", "c2"}
Ratings == {4, 5}
Titles == {"a", "b"}

\* --------------------------------------------------------- program values
MaxActiveTasks == 3
None == "none"
Slots == 1..MaxCalls
Idle == [op |-> "idle"]
\* table chats, newest first: two chats between the users of Pair
ChatRows == <<2, 1>>
ChatIds == {ChatRows[k] : k \in DOMAIN ChatRows}
\* activeChat is null
NoChat == 0
\* 5 * 1024 * 1024 bytes, in megabytes
MAX_FILE_SIZE == 5

VARIABLES
    dbTasks,       \* table tasks: row id |-> row  (ids 1..Len)
    dbApps,        \* table task_applications: row id |-> row
    dbProfiles,    \* table profiles: user id |-> row
    tasks,         \* per client: the `tasks` list, task id |-> TaskType
    appliedTasks,  \* per client: the `appliedTasks` list
    applications,  \* per client: the `applications` list, id |-> status
    last,          \* the last handler call: its return value and its toast
    faults,        \* the handler calls that may still meet a store error
    dbMessages,    \* table messages: row id |-> row  (one chat)
    messages,      \* per client: the message list of the Chat page
    now,           \* Date.now()
    chats,         \* per client: the chats list of the Chat page
    activeChat,    \* per client: the id of the chat the page shows, or NoChat
    localMessages, \* per client: the message list of ChatBox
    filePreview,   \* per client: the pending attachment, << >> or <<a>>
    isUploading,   \* per client: the uploading flag of ChatBox
    delivered,     \* per client: the INSERT events its channels have handled
    inflight       \* the handler calls awaiting the store: slot |-> call

vars == <<dbTasks, dbApps, dbProfiles, tasks, appliedTasks, applications, last,
          faults, dbMessages, messages, now, chats, activeChat, localMessages,
          filePreview, isUploading, delivered, inflight>>
pageVars == <<chats, activeChat>>
boxVars == <<localMessages, filePreview, isUploading>>
chatVars == <<dbMessages, messages, now, pageVars, boxVars, delivered>>
taskVars == <<dbTasks, dbApps, dbProfiles, tasks, appliedTasks, applications>>
dbVars == <<dbTasks, dbApps, dbProfiles>>
localVars == <<tasks, appliedTasks, applications>>

TaskIds == 1..Len(dbTasks)
AppIds == 1..Len(dbApps)

\* r with the fields of f overwritten: a partial update of a row or object.
Merge(r, f) == [k \in DOMAIN r |-> IF k \in DOMAIN f THEN f[k] ELSE r[k]]

\* tasks.map(t => t.id === id ? {...t, ...f} : t)
MapTask(list, id, f) ==
    [i \in DOMAIN list |-> IF i = id THEN Merge(list[i], f) ELSE list[i]]

\* .update(f).eq('id', id) on a table
DbUpdate(table, id, f) ==
    [i \in DOMAIN table |-> IF i = id THEN Merge(table[i], f) ELSE table[i]]

\* the row .insert() of handleCreateTask stores; the remaining columns take
\* the table's defaults
NewTaskRow(u, title) ==
    [creator_id |-> u, title |-> title, status |-> "active", doer_id |-> None,
     requestor_verification_code |-> None, doer_verification_code |-> None,
     is_requestor_verified |-> FALSE, is_doer_verified |-> FALSE,
     is_requestor_rated |-> FALSE, is_doer_rated |-> FALSE]

\* the TaskType object handleCreateTask builds from the inserted row
NewTask(row) ==
    [title |-> row.title, status |-> "active", creatorId |-> row.creator_id,
     doerId |-> None, requestorVerificationCode |-> None,
     doerVerificationCode |-> None, isRequestorVerified |-> FALSE,
     isDoerVerified |-> FALSE, isRequestorRated |-> FALSE,
     isDoerRated |-> FALSE]

\* the TaskType object a reload builds from a row
ToTaskType(row) ==
    [title |-> row.title, status |-> row.status, creatorId |-> row.creator_id,
     doerId |-> row.doer_id,
     requestorVerificationCode |-> row.requestor_verification_code,
     doerVerificationCode |-> row.doer_verification_code,
     isRequestorVerified |-> row.is_requestor_verified,
     isDoerVerified |-> row.is_doer_verified,
     isRequestorRated |-> row.is_requestor_rated,
     isDoerRated |-> row.is_doer_rated]

\* what a handler call gives back: its return value and the title of its toast
Result(ret, toast) == [ret |-> ret, toast |-> toast]

\* the ChatType object fetchChats builds for chat c and viewer u
ToChat(rows, c, u) ==
    LET inChat == {i \in DOMAIN rows : rows[i].chat_id = c}
        lastRow == CHOOSE i \in inChat : \A j \in inChat : j <= i
        unread == {i \in inChat : rows[i].receiver_id = u /\ ~rows[i].read}
    IN [id |-> c,
        lastMessage |-> IF inChat = {} THEN None ELSE rows[lastRow].content,
        unreadCount |-> Cardinality(unread)]

ProcessedChats(rows, u) ==
    [k \in DOMAIN ChatRows |-> ToChat(rows, ChatRows[k], u)]

\* the chats list a page shows after it mounted over an empty table messages
NoMessagesYet == ProcessedChats(<< >>, "u1")

Init ==
    /\ dbTasks = << >>
    /\ dbApps = << >>
    /\ dbProfiles = [u \in Users |-> [requestor_rating |-> 0, doer_rating |-> 0]]
    /\ tasks = [u \in Users |-> << >>]
    /\ appliedTasks = [u \in Users |-> << >>]
    /\ applications = [u \in Users |-> << >>]
    /\ last = Result("undefined", None)
    /\ faults = MaxFaults
    /\ dbMessages = << >>
    /\ messages = [u \in Users |-> << >>]
    /\ now = 1
    /\ chats = [u \in Users |-> IF u \in Pair THEN NoMessagesYet ELSE << >>]
    /\ activeChat = [u \in Users |-> IF u \in Pair THEN ChatRows[1] ELSE NoChat]
    /\ localMessages = [u \in Users |-> << >>]
    /\ filePreview = [u \in Users |-> << >>]
    /\ isUploading = [u \in Users |-> FALSE]
    /\ delivered = [u \in Users |-> [box |-> 0, page |-> 0]]
    /\ inflight = [s \in Slots |-> Idle]

\* the outcomes of one store call: it succeeds, or reports an error
Oks == IF faults > 0 THEN BOOLEAN ELSE {TRUE}

\* a handler call that met an error uses up one of the faults
Charge(allOk) == faults' = IF allOk THEN faults ELSE faults - 1

\* ------------------------------------------------------------ createTask
\* tasks.filter(t => t.status === 'active').length
ActiveCount(list) == Cardinality({i \in DOMAIN list : list[i].status = "active"})

\* the guard with > for >=
LimitReachedLate(list) == ActiveCount(list) > MaxActiveTasks

\* the guard of handleCreateTask
LimitReached(list) == ActiveCount(list) >= MaxActiveTasks

\* [newTask, ...tasks]
Prepend(list, id, t) ==
    [i \in DOMAIN list \cup {id} |-> IF i = id THEN t ELSE list[i]]

CreateTask(u, title) ==
    /\ UNCHANGED <<chatVars, inflight>>
    /\ IF LimitReached(tasks[u])
       THEN /\ last' = Result("undefined", "Limit Reached")
            /\ UNCHANGED <<dbVars, localVars, faults>>
       ELSE \E ok \in Oks :
              /\ Charge(ok)
              /\ IF ok
                 THEN /\ LET row == NewTaskRow(u, title)
                             id == Len(dbTasks) + 1
                         IN /\ dbTasks' = Append(dbTasks, row)
                            /\ tasks' = [tasks EXCEPT ![u] = Prepend(@, id, NewTask(row))]
                      /\ last' = Result("true", "Task Created")
                      /\ UNCHANGED <<dbApps, dbProfiles, appliedTasks, applications>>
                 ELSE /\ last' = Result("false", "Error")
                      /\ UNCHANGED <<dbVars, localVars>>

\* handleCreateTask as the steps around its await: the call keeps the list
\* of the render it was made in
CreateCall(u, title, list) ==
    [op |-> "create", user |-> u, title |-> title, list |-> list]

\* the guard on the local list, then the insert is awaited
CreateCheck(s, u, title) ==
    /\ UNCHANGED <<chatVars, dbVars, localVars, faults>>
    /\ inflight[s] = Idle
    /\ IF LimitReached(tasks[u])
       THEN /\ last' = Result("undefined", "Limit Reached")
            /\ UNCHANGED inflight
       ELSE /\ inflight' = [inflight EXCEPT ![s] = CreateCall(u, title, tasks[u])]
            /\ UNCHANGED last

\* the insert answers: setTasks([newTask, ...tasks]) with the call's list
CreateInsert(s) ==
    /\ UNCHANGED chatVars
    /\ inflight[s].op = "create"
    /\ inflight' = [inflight EXCEPT ![s] = Idle]
    /\ LET u == inflight[s].user
       IN \E ok \in Oks :
            /\ Charge(ok)
            /\ IF ok
               THEN /\ LET row == NewTaskRow(u, inflight[s].title)
                           id == Len(dbTasks) + 1
                       IN /\ dbTasks' = Append(dbTasks, row)
                          /\ tasks' = [tasks EXCEPT ![u] =
                                         Prepend(inflight[s].list, id, NewTask(row))]
                    /\ last' = Result("true", "Task Created")
                    /\ UNCHANGED <<dbApps, dbProfiles, appliedTasks, applications>>
               ELSE /\ last' = Result("false", "Error")
                    /\ UNCHANGED <<dbVars, localVars>>

\* ------------------------------------------------------------ cancelTask
\* the cancelled task given up by its doer as well
CancelFieldsUnassign == [status |-> "completed", doer_id |-> None]

\* .update({ status: 'completed' })
CancelFields == [status |-> "completed"]

CancelTask(u, t) ==
    /\ UNCHANGED <<chatVars, inflight>>
    /\ t \in DOMAIN tasks[u]
    /\ \E ok \in Oks :
         /\ Charge(ok)
         /\ IF ok
            THEN /\ dbTasks' = DbUpdate(dbTasks, t, CancelFields)
                 /\ tasks' = [tasks EXCEPT ![u] = MapTask(@, t, [status |-> "completed"])]
                 /\ last' = Result("undefined", "Task Cancelled")
                 /\ UNCHANGED <<dbApps, dbProfiles, appliedTasks, applications>>
            ELSE /\ last' = Result("undefined", "Error")
                 /\ UNCHANGED <<dbVars, localVars>>

\* -------------------------------------------------------------- editTask
\* The caller passes a whole task object, updatedTask, with the id of the
\* task.  Of the edited fields (title, description, location, reward,
\* deadline) the model keeps title.

\* the object the caller passes: a task object it holds, with a new title
Edited(task, title) == Merge(task, [title |-> title])

\* the task object as its creator got it from createTask
AsCreated(t) == NewTask(NewTaskRow(dbTasks[t].creator_id, dbTasks[t].title))

\* .update({ title: updatedTask.title, ... })
EditFields(updatedTask) == [title |-> updatedTask.title]

EditTask(u, t, updatedTask) ==
    /\ UNCHANGED <<chatVars, inflight>>
    /\ t \in DOMAIN tasks[u]
    /\ \E ok \in Oks :
         /\ Charge(ok)
         /\ IF ok
            THEN /\ dbTasks' = DbUpdate(dbTasks, t, EditFields(updatedTask))
                 /\ tasks' = [tasks EXCEPT ![u] =
                                [i \in DOMAIN @ |-> IF i = t THEN updatedTask ELSE @[i]]]
                 /\ last' = Result("undefined", "Task Updated")
                 /\ UNCHANGED <<dbApps, dbProfiles, appliedTasks, applications>>
            ELSE /\ last' = Result("undefined", "Error")
                 /\ UNCHANGED <<dbVars, localVars>>

\* --------------------------------------------------------- fetchUserTasks
\* The reload the hook is given: the client's lists as the store has them.
CreatedBy(db, u) == [i \in {j \in DOMAIN db : db[j].creator_id = u} |-> ToTaskType(db[i])]

AppliedBy(db, apps, u) ==
    [i \in {j \in DOMAIN db : \E a \in DOMAIN apps :
                 apps[a].task_id = j /\ apps[a].applicant_id = u}
       |-> ToTaskType(db[i])]

ApplicationsTo(db, apps, u) ==
    [a \in {b \in DOMAIN apps : db[apps[b].task_id].creator_id = u} |-> apps[a].status]

FetchUserTasks(u) ==
    /\ UNCHANGED <<chatVars, inflight>>
    /\ tasks' = [tasks EXCEPT ![u] = CreatedBy(dbTasks, u)]
    /\ appliedTasks' = [appliedTasks EXCEPT ![u] = AppliedBy(dbTasks, dbApps, u)]
    /\ applications' = [applications EXCEPT ![u] = ApplicationsTo(dbTasks, dbApps, u)]
    /\ last' = Result("undefined", None)
    /\ UNCHANGED <<dbVars, faults>>

\* ------------------------------------------------------------------ apply
\* .select('*').eq('task_id', t).eq('applicant_id', u).limit(1)
ExistingApplications(apps, t, u) ==
    {a \in DOMAIN apps : apps[a].task_id = t /\ apps[a].applicant_id = u}

\* the existence check without its applicant filter
AlreadyAppliedByAnyone(apps, t, u) == \E a \in DOMAIN apps : apps[a].task_id = t

\* existingApplications && existingApplications.length > 0
AlreadyApplied(apps, t, u) == ExistingApplications(apps, t, u) # {}

\* the row .insert({task_id, applicant_id, message}) stores
NewApplication(t, u) == [task_id |-> t, applicant_id |-> u, status |-> "pending"]

ApplyForTask(u, t) ==
    /\ UNCHANGED <<chatVars, inflight>>
    /\ t \in TaskIds
    /\ \E okCheck \in Oks :
         IF ~okCheck
         THEN /\ Charge(FALSE)
              /\ last' = Result("undefined", "Error")
              /\ UNCHANGED <<dbVars, localVars>>
         ELSE IF AlreadyApplied(dbApps, t, u)
         THEN /\ last' = Result("undefined", "Already Applied")
              /\ UNCHANGED <<dbVars, localVars, faults>>
         ELSE \E okInsert \in Oks :
                /\ Charge(okInsert)
                /\ IF ~okInsert
                   THEN /\ last' = Result("undefined", "Error")
                        /\ UNCHANGED <<dbVars, localVars>>
                   ELSE /\ dbApps' = Append(dbApps, NewApplication(t, u))
                        /\ tasks' = [tasks EXCEPT ![u] = CreatedBy(dbTasks, u)]
                        /\ appliedTasks' = [appliedTasks EXCEPT ![u] =
                                              AppliedBy(dbTasks, dbApps', u)]
                        /\ applications' = [applications EXCEPT ![u] =
                                              ApplicationsTo(dbTasks, dbApps', u)]
                        /\ last' = Result("undefined", "Application Submitted")
                        /\ UNCHANGED <<dbTasks, dbProfiles>>

\* handleApplyForTask as the two awaits it is made of. A call that is awaiting
\* its insert holds what its existence check answered; the store can serve
\* other calls in between.
ApplyCall(u, t) == [op |-> "apply", user |-> u, task |-> t]

\* the code between the two awaits reads the store a second time: never
InsertRechecks(apps, t, u) == AlreadyApplied(apps, t, u)
InsertBlocked(apps, t, u) == FALSE

ApplyCheck(s, u, t) ==
    /\ UNCHANGED <<chatVars, dbVars, localVars>>
    /\ t \in TaskIds
    /\ inflight[s] = Idle
    /\ \E okCheck \in Oks :
         /\ Charge(okCheck)
         /\ IF ~okCheck
            THEN /\ last' = Result("undefined", "Error")
                 /\ UNCHANGED inflight
            ELSE IF AlreadyApplied(dbApps, t, u)
            THEN /\ last' = Result("undefined", "Already Applied")
                 /\ UNCHANGED inflight
            ELSE /\ inflight' = [inflight EXCEPT ![s] = ApplyCall(u, t)]
                 /\ UNCHANGED last

ApplyInsert(s) ==
    /\ UNCHANGED chatVars
    /\ inflight[s].op = "apply"
    /\ inflight' = [inflight EXCEPT ![s] = Idle]
    /\ LET u == inflight[s].user
           t == inflight[s].task
       IN  IF InsertBlocked(dbApps, t, u)
           THEN /\ last' = Result("undefined", "Already Applied")
                /\ UNCHANGED <<dbVars, localVars, faults>>
           ELSE \E okInsert \in Oks :
                  /\ Charge(okInsert)
                  /\ IF ~okInsert
                     THEN /\ last' = Result("undefined", "Error")
                          /\ UNCHANGED <<dbVars, localVars>>
                     ELSE /\ dbApps' = Append(dbApps, NewApplication(t, u))
                          /\ tasks' = [tasks EXCEPT ![u] = CreatedBy(dbTasks, u)]
                          /\ appliedTasks' = [appliedTasks EXCEPT ![u] =
                                                AppliedBy(dbTasks, dbApps', u)]
                          /\ applications' = [applications EXCEPT ![u] =
                                                ApplicationsTo(dbTasks, dbApps', u)]
                          /\ last' = Result("undefined", "Application Submitted")
                          /\ UNCHANGED <<dbTasks, dbProfiles>>

\* ---------------------------------------------------------------- approve
\* step (a) re-opening the task as well
AssignFieldsReopen(applicantId, requestorCode, doerCode) ==
    [doer_id |-> applicantId,
     requestor_verification_code |-> requestorCode,
     doer_verification_code |-> doerCode,
     is_requestor_verified |-> FALSE, is_doer_verified |-> FALSE,
     is_requestor_rated |-> FALSE, is_doer_rated |-> FALSE,
     status |-> "active"]

\* step (a) leaving the verified flags as they are
AssignFieldsKeepVerified(applicantId, requestorCode, doerCode) ==
    [doer_id |-> applicantId,
     requestor_verification_code |-> requestorCode,
     doer_verification_code |-> doerCode,
     is_requestor_rated |-> FALSE, is_doer_rated |-> FALSE]

\* step (a): the single-row update of the task
AssignFields(applicantId, requestorCode, doerCode) ==
    [doer_id |-> applicantId,
     requestor_verification_code |-> requestorCode,
     doer_verification_code |-> doerCode,
     is_requestor_verified |-> FALSE, is_doer_verified |-> FALSE,
     is_requestor_rated |-> FALSE, is_doer_rated |-> FALSE]

\* the same fields as handleApproveApplication writes them to its tasks list
AssignFieldsLocal(applicantId, requestorCode, doerCode) ==
    [doerId |-> applicantId,
     requestorVerificationCode |-> requestorCode,
     doerVerificationCode |-> doerCode,
     isRequestorVerified |-> FALSE, isDoerVerified |-> FALSE,
     isRequestorRated |-> FALSE, isDoerRated |-> FALSE]

\* step (b) settling the other applications of the task as well
ApproveChosenRejectRest(apps, applicationId) ==
    [a \in DOMAIN apps |->
        IF a = applicationId THEN Merge(apps[a], [status |-> "approved"])
        ELSE IF apps[a].task_id = apps[applicationId].task_id
        THEN Merge(apps[a], [status |-> "rejected"])
        ELSE apps[a]]

\* step (b): .update({status: 'approved'}).eq('id', applicationId)
ApproveChosen(apps, applicationId) ==
    DbUpdate(apps, applicationId, [status |-> "approved"])

\* step (c) without its task filter
RejectOthersEverywhere(apps, taskId, applicationId) ==
    [a \in DOMAIN apps |->
        IF a # applicationId THEN Merge(apps[a], [status |-> "rejected"]) ELSE apps[a]]

\* step (c): .update({status: 'rejected'}).eq('task_id', t).neq('id', applicationId)
RejectOthers(apps, taskId, applicationId) ==
    [a \in DOMAIN apps |->
        IF apps[a].task_id = taskId /\ a # applicationId
        THEN Merge(apps[a], [status |-> "rejected"])
        ELSE apps[a]]

\* setApplications(applications.map(...)): app.taskId is the task of the row
ApproveLocal(list, apps, taskId, applicationId) ==
    [a \in DOMAIN list |->
        IF a = applicationId THEN "approved"
        ELSE IF apps[a].task_id = taskId THEN "rejected"
        ELSE list[a]]

\* The caller approves an application of its applications list and passes
\* the application's own task and applicant; requestorCode and doerCode are
\* what the two calls of generateVerificationCode return.
ApproveApplication(u, applicationId, requestorCode, doerCode) ==
    /\ UNCHANGED <<chatVars, inflight>>
    /\ applicationId \in DOMAIN applications[u]
    /\ LET taskId == dbApps[applicationId].task_id
           applicantId == dbApps[applicationId].applicant_id
           db1 == DbUpdate(dbTasks, taskId,
                           AssignFields(applicantId, requestorCode, doerCode))
           apps2 == ApproveChosen(dbApps, applicationId)
           apps3 == RejectOthers(apps2, taskId, applicationId)
       IN \E ok1 \in Oks :
            IF ~ok1
            THEN /\ Charge(FALSE)
                 /\ last' = Result("undefined", "Error")
                 /\ UNCHANGED <<dbVars, localVars>>
            ELSE \E ok2 \in Oks :
                 IF ~ok2
                 THEN /\ Charge(FALSE)
                      /\ dbTasks' = db1
                      /\ last' = Result("undefined", "Error")
                      /\ UNCHANGED <<dbApps, dbProfiles, localVars>>
                 ELSE \E ok3 \in Oks :
                      /\ Charge(ok3)
                      /\ dbTasks' = db1
                      /\ IF ~ok3
                         THEN /\ dbApps' = apps2
                              /\ last' = Result("undefined", "Error")
                              /\ UNCHANGED <<dbProfiles, localVars>>
                         ELSE /\ dbApps' = apps3
                              /\ applications' = [applications EXCEPT ![u] =
                                    ApproveLocal(@, dbApps, taskId, applicationId)]
                              /\ tasks' = [tasks EXCEPT ![u] = MapTask(@, taskId,
                                    AssignFieldsLocal(applicantId, requestorCode,
                                                      doerCode))]
                              /\ last' = Result("undefined", "Application Approved")
                              /\ UNCHANGED <<dbProfiles, appliedTasks>>

\* handleApproveApplication as the steps between its awaits: the call keeps
\* its arguments, its codes, the lists of its render and the write it is at
ApproveCall(u, applicationId, requestorCode, doerCode, at) ==
    [op |-> "approve", user |-> u, applicationId |-> applicationId,
     taskId |-> dbApps[applicationId].task_id,
     applicantId |-> dbApps[applicationId].applicant_id,
     requestorCode |-> requestorCode, doerCode |-> doerCode,
     applications |-> applications[u], tasks |-> tasks[u], at |-> at]

\* step (a)
ApproveAssign(s, u, applicationId, requestorCode, doerCode) ==
    /\ UNCHANGED <<chatVars, dbApps, dbProfiles, localVars>>
    /\ inflight[s] = Idle
    /\ applicationId \in DOMAIN applications[u]
    /\ \E ok \in Oks :
         /\ Charge(ok)
         /\ IF ok
            THEN /\ dbTasks' = DbUpdate(dbTasks, dbApps[applicationId].task_id,
                                  AssignFields(dbApps[applicationId].applicant_id,
                                               requestorCode, doerCode))
                 /\ inflight' = [inflight EXCEPT ![s] =
                        ApproveCall(u, applicationId, requestorCode, doerCode,
                                    "chosen")]
                 /\ UNCHANGED last
            ELSE /\ last' = Result("undefined", "Error")
                 /\ UNCHANGED <<dbTasks, inflight>>

\* step (b)
ApproveMark(s) ==
    /\ UNCHANGED <<chatVars, dbTasks, dbProfiles, localVars>>
    /\ inflight[s].op = "approve"
    /\ inflight[s].at = "chosen"
    /\ \E ok \in Oks :
         /\ Charge(ok)
         /\ IF ok
            THEN /\ dbApps' = ApproveChosen(dbApps, inflight[s].applicationId)
                 /\ inflight' = [inflight EXCEPT ![s].at = "others"]
                 /\ UNCHANGED last
            ELSE /\ last' = Result("undefined", "Error")
                 /\ inflight' = [inflight EXCEPT ![s] = Idle]
                 /\ UNCHANGED dbApps

\* step (c) and the lists of the caller
ApproveRest(s) ==
    /\ UNCHANGED <<chatVars, dbTasks, dbProfiles, appliedTasks>>
    /\ inflight[s].op = "approve"
    /\ inflight[s].at = "others"
    /\ inflight' = [inflight EXCEPT ![s] = Idle]
    /\ LET call == inflight[s]
           u == call.user
       IN \E ok \in Oks :
            /\ Charge(ok)
            /\ IF ok
               THEN /\ dbApps' = RejectOthers(dbApps, call.taskId, call.applicationId)
                    /\ applications' = [applications EXCEPT ![u] =
                          ApproveLocal(call.applications, dbApps, call.taskId,
                                       call.applicationId)]
                    /\ tasks' = [tasks EXCEPT ![u] = MapTask(call.tasks, call.taskId,
                          AssignFieldsLocal(call.applicantId, call.requestorCode,
                                            call.doerCode))]
                    /\ last' = Result("undefined", "Application Approved")
               ELSE /\ last' = Result("undefined", "Error")
                    /\ UNCHANGED <<dbApps, applications, tasks>>

\* ----------------------------------------------------------------- reject
RejectApplication(u, applicationId) ==
    /\ UNCHANGED <<chatVars, inflight>>
    /\ applicationId \in DOMAIN applications[u]
    /\ \E ok \in Oks :
         /\ Charge(ok)
         /\ IF ok
            THEN /\ dbApps' = DbUpdate(dbApps, applicationId, [status |-> "rejected"])
                 /\ applications' = [applications EXCEPT ![u] =
                       [a \in DOMAIN @ |-> IF a = applicationId THEN "rejected" ELSE @[a]]]
                 /\ last' = Result("undefined", "Application Rejected")
                 /\ UNCHANGED <<dbTasks, dbProfiles, tasks, appliedTasks>>
            ELSE /\ last' = Result("undefined", "Error")
                 /\ UNCHANGED <<dbVars, localVars>>

\* ------------------------------------------------------------- verifyCode
\* [...tasks, ...appliedTasks].find(t => t.id === taskId)
HasTask(u, t) == t \in DOMAIN tasks[u] \cup DOMAIN appliedTasks[u]

FindTask(u, t) == IF t \in DOMAIN tasks[u] THEN tasks[u][t] ELSE appliedTasks[u][t]

\* task.doerId === user.id
IsDoer(task, u) == task.doerId = u

\* the caller's own code instead of the counterparty's
ExpectedCodeOwn(task, u) ==
    IF IsDoer(task, u) THEN task.doerVerificationCode
    ELSE task.requestorVerificationCode

\* the counterparty's code: isDoer ? requestorVerificationCode : doerVerificationCode
ExpectedCode(task, u) ==
    IF IsDoer(task, u) THEN task.requestorVerificationCode
    ELSE task.doerVerificationCode

\* the comparison skipped while the task has no code yet
CodeMismatchIfSet(code, expectedCode) == expectedCode # None /\ code # expectedCode

\* code !== expectedCode
CodeMismatch(code, expectedCode) == code # expectedCode

\* the caller's flag written together with the completion of the task
VerifyUpdateCompletes(task, u) ==
    IF IsDoer(task, u) THEN [is_doer_verified |-> TRUE, status |-> "completed"]
    ELSE [is_requestor_verified |-> TRUE, status |-> "completed"]

\* updateData: the caller's own flag
VerifyUpdate(task, u) ==
    IF IsDoer(task, u) THEN [is_doer_verified |-> TRUE]
    ELSE [is_requestor_verified |-> TRUE]

\* the caller's list with its own flag set and the other flag as re-read
VerifyLocal(task, u, updatedTask) ==
    IF IsDoer(task, u)
    THEN [isDoerVerified |-> TRUE,
          isRequestorVerified |-> updatedTask.is_requestor_verified]
    ELSE [isRequestorVerified |-> TRUE,
          isDoerVerified |-> updatedTask.is_doer_verified]

VerifyCode(u, t, code) ==
    /\ UNCHANGED <<chatVars, inflight>>
    /\ t \in TaskIds
    /\ IF ~HasTask(u, t)
       THEN /\ last' = Result("false", "Error")
            /\ UNCHANGED <<dbVars, localVars, faults>>
       ELSE LET task == FindTask(u, t)
                db1 == DbUpdate(dbTasks, t, VerifyUpdate(task, u))
            IN IF CodeMismatch(code, ExpectedCode(task, u))
               THEN /\ last' = Result("false", None)
                    /\ UNCHANGED <<dbVars, localVars, faults>>
               ELSE \E okUpdate \in Oks :
                    IF ~okUpdate
                    THEN /\ Charge(FALSE)
                         /\ last' = Result("false", "Error")
                         /\ UNCHANGED <<dbVars, localVars>>
                    ELSE \E okFetch \in Oks :
                         /\ Charge(okFetch)
                         /\ dbTasks' = db1
                         /\ IF ~okFetch
                            THEN /\ last' = Result("false", "Error")
                                 /\ UNCHANGED <<dbApps, dbProfiles, localVars>>
                            ELSE /\ IF IsDoer(task, u)
                                    THEN /\ appliedTasks' = [appliedTasks EXCEPT ![u] =
                                              MapTask(@, t, VerifyLocal(task, u, db1[t]))]
                                         /\ UNCHANGED tasks
                                    ELSE /\ tasks' = [tasks EXCEPT ![u] =
                                              MapTask(@, t, VerifyLocal(task, u, db1[t]))]
                                         /\ UNCHANGED appliedTasks
                                 /\ last' = Result("true", None)
                                 /\ UNCHANGED <<dbApps, dbProfiles, applications>>

\* ----------------------------------------------------------- submitRating
\* the rating kept by the one who gives it
RatedProfileSelf(task, u) == u

\* the profile the rating goes to: the creator's for the doer, else the doer's
RatedProfile(task, u) == IF IsDoer(task, u) THEN task.creatorId ELSE task.doerId

\* the highest rating stored whatever is submitted
RatingFieldFixed(task, u, rating) ==
    IF IsDoer(task, u) THEN [requestor_rating |-> 5]
    ELSE [doer_rating |-> 5]

\* the columns the other way round
RatingFieldOwnRole(task, u, rating) ==
    IF IsDoer(task, u) THEN [doer_rating |-> rating]
    ELSE [requestor_rating |-> rating]

\* the column of that profile
RatingField(task, u, rating) ==
    IF IsDoer(task, u) THEN [requestor_rating |-> rating]
    ELSE [doer_rating |-> rating]

\* the caller's own rated flag, written with the task opened again
RatedUpdateReopens(task, u) ==
    IF IsDoer(task, u) THEN [is_doer_rated |-> TRUE, status |-> "active"]
    ELSE [is_requestor_rated |-> TRUE, status |-> "active"]

\* the caller's own rated flag
RatedUpdate(task, u) ==
    IF IsDoer(task, u) THEN [is_doer_rated |-> TRUE]
    ELSE [is_requestor_rated |-> TRUE]

RatedUpdateLocal(task, u) ==
    IF IsDoer(task, u) THEN [isDoerRated |-> TRUE]
    ELSE [isRequestorRated |-> TRUE]

\* one rated flag taken for both
EitherRated(row) == row.is_requestor_rated \/ row.is_doer_rated

\* taskData.is_requestor_rated && taskData.is_doer_rated
BothRated(row) == row.is_requestor_rated /\ row.is_doer_rated

\* The store calls of handleSubmitRating return their error and the handler
\* does not look at it: a failed call is skipped silently.  The lists the
\* handler maps are the ones of its closure, so the last setTasks and
\* setAppliedTasks of a call are the ones that stay.
SubmitRating(u, t, rating) ==
    /\ UNCHANGED <<chatVars, inflight>>
    /\ t \in TaskIds
    /\ IF ~HasTask(u, t)
       THEN /\ last' = Result("false", "Error")
            /\ UNCHANGED <<dbVars, localVars, faults>>
       ELSE \E okSelect \in Oks, okProfile \in Oks, okFlag \in Oks,
               okRead \in Oks, okStatus \in Oks :
            LET currentTask == FindTask(u, t)
                who == RatedProfile(currentTask, u)
                profileData == okSelect /\ who \in DOMAIN dbProfiles
                db1 == IF okFlag THEN DbUpdate(dbTasks, t, RatedUpdate(currentTask, u))
                       ELSE dbTasks
                completes == okRead /\ BothRated(db1[t])
                db2 == IF completes /\ okStatus
                       THEN DbUpdate(db1, t, [status |-> "completed"])
                       ELSE db1
            IN \* a call that is not made does not fail
               /\ profileData \/ okProfile
               /\ completes \/ okStatus
               /\ Charge(okSelect /\ okProfile /\ okFlag /\ okRead /\ okStatus)
               /\ dbProfiles' =
                    IF profileData /\ okProfile
                    THEN DbUpdate(dbProfiles, who, RatingField(currentTask, u, rating))
                    ELSE dbProfiles
               /\ dbTasks' = db2
               /\ IF completes
                  THEN /\ tasks' = [tasks EXCEPT ![u] =
                                      MapTask(@, t, [status |-> "completed"])]
                       /\ appliedTasks' = [appliedTasks EXCEPT ![u] =
                                      MapTask(@, t, [status |-> "completed"])]
                  ELSE IF IsDoer(currentTask, u)
                  THEN /\ appliedTasks' = [appliedTasks EXCEPT ![u] =
                                      MapTask(@, t, RatedUpdateLocal(currentTask, u))]
                       /\ UNCHANGED tasks
                  ELSE /\ tasks' = [tasks EXCEPT ![u] =
                                      MapTask(@, t, RatedUpdateLocal(currentTask, u))]
                       /\ UNCHANGED appliedTasks
               /\ last' = Result("true", "Rating Submitted")
               /\ UNCHANGED <<dbApps, applications>>

\* handleSubmitRating as the steps between its awaits: the call keeps the
\* task it found, the lists of its render and the request it is at
RateCall(u, t, rating, at) ==
    [op |-> "rate", user |-> u, task |-> t, rating |-> rating,
     currentTask |-> FindTask(u, t), tasks |-> tasks[u],
     appliedTasks |-> appliedTasks[u], at |-> at]

\* the flags as the caller's own list has them, with its own flag set
FlagsOfLocal(call, rows) ==
    [is_requestor_rated |-> call.currentTask.isRequestorRated
                              \/ ~IsDoer(call.currentTask, call.user),
     is_doer_rated |-> call.currentTask.isDoerRated
                         \/ IsDoer(call.currentTask, call.user)]

\* taskData: select('is_requestor_rated, is_doer_rated') of the row
FlagsRead(call, rows) ==
    [is_requestor_rated |-> rows[call.task].is_requestor_rated,
     is_doer_rated |-> rows[call.task].is_doer_rated]

\* the rating is written to the counterparty's profile
RateProfile(s, u, t, rating) ==
    /\ UNCHANGED <<chatVars, dbTasks, dbApps, localVars>>
    /\ t \in TaskIds
    /\ inflight[s] = Idle
    /\ IF ~HasTask(u, t)
       THEN /\ last' = Result("false", "Error")
            /\ UNCHANGED <<dbProfiles, faults, inflight>>
       ELSE \E okSelect \in Oks, okProfile \in Oks :
            LET currentTask == FindTask(u, t)
                who == RatedProfile(currentTask, u)
                profileData == okSelect /\ who \in DOMAIN dbProfiles
            IN /\ profileData \/ okProfile
               /\ okSelect \/ okProfile
               /\ Charge(okSelect /\ okProfile)
               /\ dbProfiles' =
                    IF profileData /\ okProfile
                    THEN DbUpdate(dbProfiles, who, RatingField(currentTask, u, rating))
                    ELSE dbProfiles
               /\ inflight' = [inflight EXCEPT ![s] = RateCall(u, t, rating, "flag")]
               /\ UNCHANGED last

\* the caller's rated flag is written, then its own list
RateFlag(s) ==
    /\ UNCHANGED <<chatVars, dbApps, dbProfiles, applications, last>>
    /\ inflight[s].op = "rate"
    /\ inflight[s].at = "flag"
    /\ inflight' = [inflight EXCEPT ![s].at = "read"]
    /\ LET call == inflight[s]
           u == call.user
       IN /\ \E okFlag \in Oks :
               /\ Charge(okFlag)
               /\ dbTasks' = IF okFlag
                             THEN DbUpdate(dbTasks, call.task,
                                           RatedUpdate(call.currentTask, u))
                             ELSE dbTasks
          /\ IF IsDoer(call.currentTask, u)
             THEN /\ appliedTasks' = [appliedTasks EXCEPT ![u] =
                        MapTask(call.appliedTasks, call.task,
                                RatedUpdateLocal(call.currentTask, u))]
                  /\ UNCHANGED tasks
             ELSE /\ tasks' = [tasks EXCEPT ![u] =
                        MapTask(call.tasks, call.task,
                                RatedUpdateLocal(call.currentTask, u))]
                  /\ UNCHANGED appliedTasks

\* the flags are read again: the call ends, or goes on to complete the task
RateRead(s) ==
    /\ UNCHANGED <<chatVars, dbVars, localVars>>
    /\ inflight[s].op = "rate"
    /\ inflight[s].at = "read"
    /\ \E okRead \in Oks :
         /\ Charge(okRead)
         /\ IF okRead /\ BothRated(FlagsRead(inflight[s], dbTasks))
            THEN /\ inflight' = [inflight EXCEPT ![s].at = "status"]
                 /\ UNCHANGED last
            ELSE /\ inflight' = [inflight EXCEPT ![s] = Idle]
                 /\ last' = Result("true", "Rating Submitted")

\* the task is completed, in the store and in the lists of the call
RateStatus(s) ==
    /\ UNCHANGED <<chatVars, dbApps, dbProfiles, applications>>
    /\ inflight[s].op = "rate"
    /\ inflight[s].at = "status"
    /\ inflight' = [inflight EXCEPT ![s] = Idle]
    /\ LET call == inflight[s]
           u == call.user
       IN /\ \E okStatus \in Oks :
               /\ Charge(okStatus)
               /\ dbTasks' = IF okStatus
                             THEN DbUpdate(dbTasks, call.task, [status |-> "completed"])
                             ELSE dbTasks
          /\ tasks' = [tasks EXCEPT ![u] =
                         MapTask(call.tasks, call.task, [status |-> "completed"])]
          /\ appliedTasks' = [appliedTasks EXCEPT ![u] =
                         MapTask(call.appliedTasks, call.task, [status |-> "completed"])]
    /\ last' = Result("true", "Rating Submitted")

\* ------------------------------------------------------------------- next
\* A user applies to the tasks of others.
CanApply(u, t) == dbTasks[t].creator_id # u

\* u has posted no task yet.
PostsOnce(u) == \A t \in TaskIds : dbTasks[t].creator_id # u

\* Every handler: u1 posts one task, u2 applies to it.
Next ==
    \/ \E title \in {"a"} : PostsOnce("u1") /\ CreateTask("u1", title)
    \/ \E u \in Pair, t \in TaskIds : CancelTask(u, t)
    \/ \E u \in Pair, t \in TaskIds, title \in {"a"} :
          t \in DOMAIN tasks[u] /\ EditTask(u, t, Edited(tasks[u][t], title))
    \/ \E u \in Pair : FetchUserTasks(u)
    \/ \E u \in Pair, t \in TaskIds : CanApply(u, t) /\ ApplyForTask(u, t)
    \/ \E u \in Pair, a \in AppIds, code \in {"c1"} : ApproveApplication(u, a, code, code)
    \/ \E u \in Pair, a \in AppIds : RejectApplication(u, a)
    \/ \E u \in Pair, t \in TaskIds, code \in {"c1"} : VerifyCode(u, t, code)
    \/ \E u \in Pair, t \in TaskIds, rating \in {5} : SubmitRating(u, t, rating)

Spec == Init /\ [][Next]_vars

\* The task list of one requestor: u1 posts, cancels, edits and reloads.
NextCreate ==
    \/ \E title \in Titles :
          /\ Len(dbTasks) < MaxOwnTasks \/ LimitReached(tasks["u1"])
          /\ CreateTask("u1", title)
    \/ \E t \in TaskIds : CancelTask("u1", t)
    \/ \E t \in TaskIds, title \in Titles :
          t \in DOMAIN tasks["u1"] /\ EditTask("u1", t, Edited(tasks["u1"][t], title))
    \/ FetchUserTasks("u1")

SpecCreate == Init /\ [][NextCreate]_vars

\* The applications: u1 and u2 post one task each, u2 and u3 apply, the
\* requestors reload, approve and reject.
NextApply ==
    \/ \E u \in Pair, title \in {"a"} : PostsOnce(u) /\ CreateTask(u, title)
    \/ \E u \in Pair : FetchUserTasks(u)
    \/ \E u \in {"u2", "u3"}, t \in TaskIds : CanApply(u, t) /\ ApplyForTask(u, t)
    \/ \E u \in Pair, a \in AppIds, code \in {"c1"} : ApproveApplication(u, a, code, code)
    \/ \E u \in Pair, a \in AppIds : RejectApplication(u, a)

SpecApply == Init /\ [][NextApply]_vars

\* The verification of one task: u1 posts it, u2 applies, u1 approves (and
\* approves again), both present codes.
NextVerify ==
    \/ \E title \in {"a"} : PostsOnce("u1") /\ CreateTask("u1", title)
    \/ \E u \in Pair : FetchUserTasks(u)
    \/ \E u \in Pair, t \in TaskIds : CanApply(u, t) /\ ApplyForTask(u, t)
    \/ \E u \in Pair, a \in AppIds, requestorCode \in Codes, doerCode \in Codes :
          ApproveApplication(u, a, requestorCode, doerCode)
    \/ \E u \in Pair, t \in TaskIds, code \in Codes : VerifyCode(u, t, code)

SpecVerify == Init /\ [][NextVerify]_vars

\* The rating of one task.
NextRating ==
    \/ \E title \in {"a"} : PostsOnce("u1") /\ CreateTask("u1", title)
    \/ \E u \in Pair : FetchUserTasks(u)
    \/ \E u \in Pair, t \in TaskIds : CanApply(u, t) /\ ApplyForTask(u, t)
    \/ \E u \in Pair, a \in AppIds, code \in {"c1"} : ApproveApplication(u, a, code, code)
    \/ \E u \in Pair, t \in TaskIds, rating \in Ratings : SubmitRating(u, t, rating)

SpecRating == Init /\ [][NextRating]_vars

\* The end-to-end run: u1 posts a task, u2 applies, u1 approves, u2 and
\* then u1 enter a code, u1 rates 5 and then u2 rates 4.  Each step is
\* enabled by what the step before has left in the store; the lists are
\* refreshed at any time.
Verified(row) == row.is_requestor_verified /\ row.is_doer_verified

NextScenario ==
    \/ \E title \in {"a"} : PostsOnce("u1") /\ CreateTask("u1", title)
    \/ \E u \in Pair : FetchUserTasks(u)
    \/ \E t \in TaskIds : dbApps = <<>> /\ ApplyForTask("u2", t)
    \/ \E a \in AppIds, rc \in Codes, dc \in Codes :
          /\ dbTasks[dbApps[a].task_id].doer_id = None
          /\ ApproveApplication("u1", a, rc, dc)
    \/ \E t \in TaskIds, code \in Codes :
          /\ dbTasks[t].doer_id = "u2" /\ ~dbTasks[t].is_doer_verified
          /\ VerifyCode("u2", t, code)
    \/ \E t \in TaskIds, code \in Codes :
          /\ dbTasks[t].is_doer_verified /\ ~dbTasks[t].is_requestor_verified
          /\ VerifyCode("u1", t, code)
    \/ \E t \in TaskIds :
          /\ Verified(dbTasks[t]) /\ ~dbTasks[t].is_requestor_rated
          /\ SubmitRating("u1", t, 5)
    \/ \E t \in TaskIds :
          /\ dbTasks[t].is_requestor_rated /\ ~dbTasks[t].is_doer_rated
          /\ SubmitRating("u2", t, 4)

SpecScenario == Init /\ [][NextScenario]_vars

\* Editing over the life of a task: the object handed to editTask is the
\* one of the caller's list or the one the caller got when it created the
\* task (an edit form filled before the later changes).
NextEdit ==
    \/ \E title \in {"a"} : PostsOnce("u1") /\ CreateTask("u1", title)
    \/ \E t \in TaskIds : CancelTask("u1", t)
    \/ \E u \in Pair : FetchUserTasks(u)
    \/ \E t \in TaskIds : CanApply("u2", t) /\ ApplyForTask("u2", t)
    \/ \E a \in AppIds, code \in {"c1"} : ApproveApplication("u1", a, code, code)
    \/ \E t \in TaskIds, code \in {"c1"} : VerifyCode("u1", t, code)
    \/ \E t \in TaskIds, title \in Titles :
          /\ t \in DOMAIN tasks["u1"]
          /\ \E held \in {tasks["u1"][t], AsCreated(t)} :
                EditTask("u1", t, Edited(held, title))

SpecEdit == Init /\ [][NextEdit]_vars

\* Overlapping apply calls: u1 posts one task, u2 and u3 apply to it with up
\* to MaxCalls calls awaiting the store at a time.
NextRace ==
    \/ \E title \in {"a"} : PostsOnce("u1") /\ CreateTask("u1", title)
    \/ \E u \in Pair : FetchUserTasks(u)
    \/ \E s \in Slots, u \in {"u2", "u3"}, t \in TaskIds :
         CanApply(u, t) /\ ApplyCheck(s, u, t)
    \/ \E s \in Slots : ApplyInsert(s)

SpecRace == Init /\ [][NextRace]_vars

\* Overlapping create calls of u1, with cancel and the reload of its lists.
NextCreateRace ==
    \/ \E s \in Slots, title \in {"a"} :
         /\ Len(dbTasks) + Cardinality({r \in Slots : inflight[r] # Idle}) < MaxOwnTasks
              \/ LimitReached(tasks["u1"])
         /\ CreateCheck(s, "u1", title)
    \/ \E s \in Slots : CreateInsert(s)
    \/ \E t \in TaskIds : CancelTask("u1", t)
    \/ FetchUserTasks("u1")

SpecCreateRace == Init /\ [][NextCreateRace]_vars

\* Overlapping approve calls of u1 for the applications of u2 and u3.
NextApproveRace ==
    \/ \E title \in {"a"} : PostsOnce("u1") /\ CreateTask("u1", title)
    \/ FetchUserTasks("u1")
    \/ \E u \in {"u2", "u3"}, t \in TaskIds : CanApply(u, t) /\ ApplyForTask(u, t)
    \/ \E s \in Slots, a \in AppIds, code \in {"c1"} :
         ApproveAssign(s, "u1", a, code, code)
    \/ \E s \in Slots : ApproveMark(s)
    \/ \E s \in Slots : ApproveRest(s)

SpecApproveRace == Init /\ [][NextApproveRace]_vars

\* The two parties of an assigned task rate it once each, over lists that
\* show the doer; their calls may overlap.
RatesOnce(u, t) ==
    /\ \A s \in Slots : IF inflight[s] = Idle THEN TRUE ELSE inflight[s].user # u
    /\ HasTask(u, t)
    /\ FindTask(u, t).doerId = dbTasks[t].doer_id
    /\ dbTasks[t].doer_id # None
    /\ IF dbTasks[t].doer_id = u THEN ~dbTasks[t].is_doer_rated
       ELSE ~dbTasks[t].is_requestor_rated

NextRatingRace ==
    \/ \E title \in {"a"} : PostsOnce("u1") /\ CreateTask("u1", title)
    \/ \E u \in Pair : FetchUserTasks(u)
    \/ \E t \in TaskIds : CanApply("u2", t) /\ ApplyForTask("u2", t)
    \/ \E a \in AppIds, code \in {"c1"} :
         /\ dbTasks[dbApps[a].task_id].doer_id = None
         /\ ApproveApplication("u1", a, code, code)
    \/ \E s \in Slots, u \in Pair, t \in TaskIds, rating \in Ratings :
         RatesOnce(u, t) /\ RateProfile(s, u, t, rating)
    \/ \E s \in Slots : RateFlag(s)
    \/ \E s \in Slots : RateRead(s)
    \/ \E s \in Slots : RateStatus(s)

SpecRatingRace == Init /\ [][NextRatingRace]_vars

\* ------------------------------------------------------------------ chat
\* One chat between the two users of Pair.  A row of table messages has
\* the structured column attachment (JSONB) and the four denormalized
\* columns; a null text column is None, a null number column NoNumber.
NoNumber == 0 - 1

\* the values of the structured column: null, an object, or a text that
\* JSON.parse rejects
NullJson == [kind |-> "null"]
ObjectJson(o) == [kind |-> "object", value |-> o]
BadJson == [kind |-> "text"]

\* a || b on texts and on numbers
OrText(a, b) == IF a \in {None, ""} THEN b ELSE a
OrNumber(a, b) == IF a \in {NoNumber, 0} THEN b ELSE a

\* the FileAttachment objects handleFileChange builds at instant n
Descriptors(n) ==
    [id : {n}, name : {"a.png"}, type : {"image/png", ""}, url : {"url"},
     size : {0, 5}]

\* the other user of the chat
Participant(u) == IF u = "u1" THEN "u2" ELSE "u1"

\* the row handleSendMessage inserts into chat c; the store keeps the
\* structured column or the denormalized columns alone
MessageRow(u, c, content, sent, structured) ==
    [chat_id |-> c, sender_id |-> u, receiver_id |-> Participant(u),
     content |-> content, read |-> FALSE,
     attachment |-> IF sent # << >> /\ structured THEN ObjectJson(sent[1])
                    ELSE NullJson,
     attachment_name |-> IF sent = << >> THEN None ELSE sent[1].name,
     attachment_type |-> IF sent = << >> THEN None ELSE sent[1].type,
     attachment_url |-> IF sent = << >> THEN None ELSE sent[1].url,
     attachment_size |-> IF sent = << >> THEN NoNumber ELSE sent[1].size]

\* the attachment built from the denormalized columns, with a new id
FromColumns(message, n) ==
    [id |-> n,
     name |-> OrText(message.attachment_name, "file"),
     type |-> OrText(message.attachment_type, "application/octet-stream"),
     url |-> message.attachment_url,
     size |-> OrNumber(message.attachment_size, 0)]

\* the attachment built from the parsed structured column
FromObject(parsedAttachment, message, n) ==
    [id |-> OrNumber(parsedAttachment.id, n),
     name |-> OrText(OrText(parsedAttachment.name, message.attachment_name), "file"),
     type |-> OrText(OrText(parsedAttachment.type, message.attachment_type),
                     "application/octet-stream"),
     url |-> OrText(OrText(parsedAttachment.url, message.attachment_url), ""),
     size |-> OrNumber(OrNumber(parsedAttachment.size, message.attachment_size), 0)]

\* the attachment fetchMessages gives a row at instant n: << >> is undefined
Attachment(message, n) ==
    LET hasUrl == ~(message.attachment_url \in {None, ""})
    IN IF message.attachment.kind = "object"
       THEN <<FromObject(message.attachment.value, message, n)>>
       ELSE IF hasUrl THEN <<FromColumns(message, n)>>
       ELSE << >>

\* the MessageType object of a row
ToMessage(message, id, n) ==
    [id |-> id, senderId |-> message.sender_id, content |-> message.content,
     read |-> message.read, attachment |-> Attachment(message, n)]

\* the ids of the rows of chat c, oldest first
RowsOf(rows, c) ==
    SelectSeq([i \in DOMAIN rows |-> i], LAMBDA i : rows[i].chat_id = c)

\* the list fetchMessages builds for chat c at instant n
Formatted(rows, c, n) ==
    LET ids == RowsOf(rows, c)
    IN [k \in DOMAIN ids |-> ToMessage(rows[ids[k]], ids[k], n)]

\* the rows of chat c fetchMessages marks read
Unread(u, c) == {i \in DOMAIN dbMessages :
                   /\ dbMessages[i].chat_id = c
                   /\ ~dbMessages[i].read
                   /\ dbMessages[i].sender_id # u}

\* update({ read: true }).in('id', ids)
ReadFieldsBlank == [read |-> TRUE, content |-> ""]
ReadFields == [read |-> TRUE]
MarkedRead(rows, ids) ==
    [i \in DOMAIN rows |-> IF i \in ids THEN Merge(rows[i], ReadFields)
                           ELSE rows[i]]

\* ---------------------------------------------------------------- ChatBox
\* `temp-${Date.now()}`: the ids of rows are positive, temporary ids negative
TempId(n) == 0 - n

\* m.isOptimistic, undefined on the messages built from rows
IsOptimistic(m) == "isOptimistic" \in DOMAIN m /\ m.isOptimistic

\* the optimistic message of handleSendMessage
OptimisticUnmarked(u, content, preview, n) ==
    [id |-> TempId(n), senderId |-> u, content |-> content, read |-> FALSE,
     attachment |-> preview, isOptimistic |-> FALSE]
OptimisticMessage(u, content, preview, n) ==
    [id |-> TempId(n), senderId |-> u, content |-> content, read |-> FALSE,
     attachment |-> preview, isOptimistic |-> TRUE]

\* the ids markMessagesAsRead sends
ToMarkWithOwn(u, list) ==
    {list[k].id : k \in {j \in DOMAIN list :
                           ~list[j].read /\ ~IsOptimistic(list[j])}}
ToMark(u, list) ==
    {list[k].id : k \in {j \in DOMAIN list :
                           /\ ~list[j].read
                           /\ list[j].senderId # u
                           /\ ~IsOptimistic(list[j])}}

\* the effect on [localMessages]: one update when there is something to
\* mark, its error is not looked at
MarkRequests(u, list) == IF ToMark(u, list) = {} THEN {TRUE} ELSE Oks
MarkMessagesAsRead(rows, u, list, ok) ==
    IF ok THEN MarkedRead(rows, ToMark(u, list)) ELSE rows

\* fetchMessages(c) and the effects of ChatBox that follow setMessages:
\* it constrains dbMessages, messages, localMessages, last and faults
LoadMessages(u, c) ==
    \E ok \in Oks :
      IF ~ok
      THEN /\ Charge(FALSE)
           /\ last' = Result("undefined", "Error")
           /\ UNCHANGED <<dbMessages, messages, localMessages>>
      ELSE LET list == Formatted(dbMessages, c, now)
           IN \E okRead \in (IF Unread(u, c) = {} THEN {TRUE} ELSE Oks),
                 okMark \in MarkRequests(u, list) :
                /\ okRead \/ okMark
                /\ Charge(okRead /\ okMark)
                /\ messages' = [messages EXCEPT ![u] = list]
                /\ localMessages' = [localMessages EXCEPT ![u] = list]
                /\ dbMessages' = MarkMessagesAsRead(
                                   IF okRead THEN MarkedRead(dbMessages, Unread(u, c))
                                   ELSE dbMessages,
                                   u, list, okMark)
                /\ last' = Result("undefined", None)

\* refreshMessages: fetchMessages of the active chat
FetchMessages(u) ==
    /\ UNCHANGED <<taskVars, now, inflight, pageVars, filePreview, isUploading,
                   delivered>>
    /\ activeChat[u] # NoChat
    /\ LoadMessages(u, activeChat[u])

\* the channel of ChatBox is subscribed again when the chat changes
Resubscribed(u, c) ==
    IF c = activeChat[u] THEN delivered
    ELSE [delivered EXCEPT ![u].box = Len(dbMessages)]

\* handleChatSelect
ChatSelect(u, c) ==
    /\ UNCHANGED <<taskVars, now, inflight, chats, filePreview, isUploading>>
    /\ activeChat' = [activeChat EXCEPT ![u] = c]
    /\ delivered' = Resubscribed(u, c)
    /\ LoadMessages(u, c)

\* the chat fetchChats makes active: the one of location.state, else the
\* first of the list
ChosenChatOldest(fromState) ==
    IF fromState \in ChatIds THEN fromState ELSE ChatRows[Len(ChatRows)]
ChosenChat(fromState) ==
    IF fromState \in ChatIds THEN fromState ELSE ChatRows[1]

\* fetchChats, with location.state.activeChatId = fromState (or NoChat); it
\* leaves the channels to its caller
FetchChats(u, fromState) ==
    /\ UNCHANGED <<taskVars, now, inflight, filePreview, isUploading>>
    /\ \E ok \in Oks :
         IF ~ok
         THEN /\ Charge(FALSE)
              /\ last' = Result("undefined", "Error")
              /\ UNCHANGED <<dbMessages, messages, localMessages, pageVars>>
         ELSE /\ chats' = [chats EXCEPT ![u] = ProcessedChats(dbMessages, u)]
              /\ activeChat' = [activeChat EXCEPT ![u] = ChosenChat(fromState)]
              /\ LoadMessages(u, ChosenChat(fromState))

\* the INSERT handler of the page's messageChannel, for the next event
MessageInserted(u, fromState) ==
    /\ delivered[u].page < Len(dbMessages)
    /\ FetchChats(u, fromState)
    /\ delivered' = [Resubscribed(u, activeChat'[u])
                       EXCEPT ![u].page = delivered[u].page + 1]

\* the insert of handleSendMessage of the Chat page: it constrains
\* dbMessages, last and faults
InsertMessage(u, c, content, sent, structured) ==
    \E ok \in Oks :
      /\ Charge(ok)
      /\ IF ok
         THEN /\ dbMessages' = Append(dbMessages,
                                      MessageRow(u, c, content, sent, structured))
              /\ last' = Result("undefined", None)
         ELSE /\ last' = Result("undefined", "Error")
              /\ UNCHANGED dbMessages

\* handleSendMessage of the Chat page: sent is << >> or <<attachment>>
SendMessage(u, content, sent, structured) ==
    /\ UNCHANGED <<taskVars, messages, now, inflight, pageVars, boxVars, delivered>>
    /\ activeChat[u] # NoChat
    /\ InsertMessage(u, activeChat[u], content, sent, structured)

\* time passes
Tick ==
    /\ now < MaxNow
    /\ now' = now + 1
    /\ UNCHANGED <<taskVars, dbMessages, messages, last, faults, inflight,
                   pageVars, boxVars, delivered>>

\* ChatBox.handleSendMessage up to its await: the call holds what it handed
\* to onSendMessage
SendCall(u, c, content, preview) ==
    [op |-> "send", user |-> u, chat |-> c, content |-> content, sent |-> preview]

BoxSend(s, u, content) ==
    /\ UNCHANGED <<taskVars, now, messages, pageVars, filePreview, isUploading,
                   delivered, last>>
    /\ inflight[s] = Idle
    /\ activeChat[u] # NoChat
    /\ content # "" \/ filePreview[u] # << >>
    /\ LET list == Append(localMessages[u],
                          OptimisticMessage(u, content, filePreview[u], now))
       IN /\ localMessages' = [localMessages EXCEPT ![u] = list]
          /\ \E okMark \in MarkRequests(u, list) :
               /\ Charge(okMark)
               /\ dbMessages' = MarkMessagesAsRead(dbMessages, u, list, okMark)
    /\ inflight' = [inflight EXCEPT ![s] =
                      SendCall(u, activeChat[u], content, filePreview[u])]

\* the insert of the call answers and ChatBox.handleSendMessage resumes
BoxSent(s, structured) ==
    /\ UNCHANGED <<taskVars, now, messages, pageVars, localMessages, isUploading,
                   delivered>>
    /\ inflight[s].op = "send"
    /\ InsertMessage(inflight[s].user, inflight[s].chat, inflight[s].content,
                     inflight[s].sent, structured)
    /\ filePreview' = [filePreview EXCEPT ![inflight[s].user] = << >>]
    /\ inflight' = [inflight EXCEPT ![s] = Idle]

\* the attachment the subscription handler gives a pushed row
PushAttachment(row, n) ==
    IF row.attachment.kind = "object"
    THEN LET parsedAttachment == row.attachment.value
         IN <<[id |-> OrNumber(parsedAttachment.id, n),
               name |-> parsedAttachment.name,
               type |-> parsedAttachment.type,
               url |-> parsedAttachment.url,
               size |-> parsedAttachment.size]>>
    ELSE << >>

\* the message the subscription handler builds
PushedMessage(row, id, n) ==
    [id |-> id, senderId |-> row.sender_id, content |-> row.content,
     read |-> FALSE, attachment |-> PushAttachment(row, n)]

\* the optimistic entries the handler drops
MatchesContent(m, newMessage) ==
    IsOptimistic(m) /\ m.content = newMessage.content
Matches(m, newMessage) ==
    /\ IsOptimistic(m)
    /\ m.content = newMessage.content
    /\ m.senderId = newMessage.senderId

Merged(list, newMessage) ==
    Append(SelectSeq(list, LAMBDA m : ~Matches(m, newMessage)), newMessage)

\* the subscription handler of ChatBox, for the next INSERT event
MessagePushed(u) ==
    /\ UNCHANGED <<taskVars, now, messages, pageVars, filePreview, isUploading,
                   inflight, last>>
    /\ delivered[u].box < Len(dbMessages)
    /\ LET i == delivered[u].box + 1
           row == dbMessages[i]
           list == Merged(localMessages[u], PushedMessage(row, i, now))
       IN /\ delivered' = [delivered EXCEPT ![u].box = i]
          /\ IF row.chat_id = activeChat[u] /\ row.sender_id # u
             THEN /\ localMessages' = [localMessages EXCEPT ![u] = list]
                  /\ \E okMark \in MarkRequests(u, list) :
                       /\ Charge(okMark)
                       /\ dbMessages' = MarkMessagesAsRead(dbMessages, u, list,
                                                           okMark)
             ELSE UNCHANGED <<localMessages, dbMessages, faults>>

\* ----------------------------------------------------------- attachments
\* the files of the file input: sizes in megabytes
Files == [name : {"a.png"}, type : {"image/png"}, size : {5, 6}]

\* what the storage service answers: the step that fails, or "ok"
Outcomes == {"ok", "listBuckets", "bucket", "upload", "publicUrl"}

ToAttachment(file, n) ==
    [id |-> n, name |-> file.name, type |-> file.type, url |-> "url",
     size |-> file.size]

UploadCall(u, file) == [op |-> "upload", user |-> u, file |-> file]

\* handleFileChange up to its first await
FileChange(s, u, file) ==
    /\ UNCHANGED <<taskVars, dbMessages, messages, now, pageVars, localMessages,
                   filePreview, delivered, faults>>
    /\ inflight[s] = Idle
    /\ IF file.size > MAX_FILE_SIZE
       THEN /\ last' = Result("undefined", "File too large")
            /\ UNCHANGED <<isUploading, inflight>>
       ELSE /\ isUploading' = [isUploading EXCEPT ![u] = TRUE]
            /\ inflight' = [inflight EXCEPT ![s] = UploadCall(u, file)]
            /\ UNCHANGED last

\* the pending attachment after the storage service answered
PreviewAlways(preview, file, outcome, n) == <<ToAttachment(file, n)>>
Preview(preview, file, outcome, n) ==
    IF outcome = "ok" THEN <<ToAttachment(file, n)>> ELSE preview

\* handleFileChange from the answer of the storage service to its end
FileUploaded(s, outcome) ==
    /\ UNCHANGED <<taskVars, dbMessages, messages, now, pageVars, localMessages,
                   delivered, faults>>
    /\ inflight[s].op = "upload"
    /\ LET u == inflight[s].user
       IN /\ filePreview' = [filePreview EXCEPT ![u] =
                               Preview(filePreview[u], inflight[s].file, outcome, now)]
          /\ isUploading' = [isUploading EXCEPT ![u] = FALSE]
    /\ last' = Result("undefined", IF outcome = "ok" THEN None ELSE "Upload failed")
    /\ inflight' = [inflight EXCEPT ![s] = Idle]

NextChat ==
    \/ \E u \in {"u1"}, sent \in {<<d>> : d \in Descriptors(now)} \cup {<< >>},
          structured \in BOOLEAN :
          /\ Len(dbMessages) < MaxMessages
          /\ SendMessage(u, "hi", sent, structured)
    \/ \E u \in Pair : FetchMessages(u)
    \/ Tick

SpecChat == Init /\ [][NextChat]_vars

\* The ChatBox of u1 over the active chat; u2 writes from a page of its own.
NextBox ==
    \/ Len(localMessages["u1"]) < MaxMessages /\ BoxSend(1, "u1", "hi")
    \/ BoxSent(1, TRUE)
    \/ \E sent \in {<<ToAttachment(file, now)>> :
                      file \in {f \in Files : f.size <= MAX_FILE_SIZE}} \cup {<< >>},
          structured \in BOOLEAN :
          /\ Len(dbMessages) < MaxMessages
          /\ sent # << >> \/ structured
          /\ SendMessage("u2", "hi", sent, structured)
    \/ MessagePushed("u1")
    \/ FetchMessages("u1")
    \/ Tick

SpecBox == Init /\ [][NextBox]_vars

\* Attaching a file and sending it.
NextUpload ==
    \/ \E s \in Slots, file \in Files : FileChange(s, "u1", file)
    \/ \E s \in Slots, outcome \in Outcomes : FileUploaded(s, outcome)
    \/ \E s \in Slots, content \in {"hi", ""} :
         /\ Len(localMessages["u1"]) < MaxMessages
         /\ BoxSend(s, "u1", content)
    \/ \E s \in Slots : BoxSent(s, TRUE)
    \/ Tick

SpecUpload == Init /\ [][NextUpload]_vars

\* The Chat page of u1 while u2 writes into both chats.
NextPage ==
    \/ \E c \in ChatIds : ChatSelect("u1", c)
    \/ \E c \in ChatIds : ChatSelect("u2", c)
    \/ Len(dbMessages) < MaxMessages /\ SendMessage("u2", "hi", << >>, TRUE)
    \/ \E fromState \in {NoChat, 1} : MessageInserted("u1", fromState)
    \/ MessagePushed("u1")

SpecPage == Init /\ [][NextPage]_vars

\* The Chat page and the ChatBox of u1 together: u1 sends from the ChatBox,
\* both channels of u1 receive the INSERT events, u2 writes too.
NextSending ==
    \/ /\ Len(localMessages["u1"]) < MaxMessages
       /\ Len(dbMessages) < MaxMessages
       /\ BoxSend(1, "u1", "hi")
    \/ BoxSent(1, TRUE)
    \/ Len(dbMessages) < MaxMessages /\ SendMessage("u2", "hi", << >>, TRUE)
    \/ MessagePushed("u1")
    \/ MessageInserted("u1", NoChat)
    \/ Tick

SpecSending == Init /\ [][NextSending]_vars

\* handleChatSelect and fetchMessages as the steps between the awaits: the
\* call keeps the chatId it was given
FetchCall(u, c) == [op |-> "fetch", user |-> u, chat |-> c]

\* handleChatSelect up to the await of the select of fetchMessages
ChatSelectStart(s, u, c) ==
    /\ UNCHANGED <<taskVars, now, chats, boxVars, dbMessages, messages, last,
                   faults>>
    /\ inflight[s] = Idle
    /\ activeChat' = [activeChat EXCEPT ![u] = c]
    /\ delivered' = Resubscribed(u, c)
    /\ inflight' = [inflight EXCEPT ![s] = FetchCall(u, c)]

\* the select of the call is answered and fetchMessages runs to its end
FetchMessagesDone(s) ==
    /\ UNCHANGED <<taskVars, now, pageVars, filePreview, isUploading, delivered>>
    /\ inflight[s].op = "fetch"
    /\ LoadMessages(inflight[s].user, inflight[s].chat)
    /\ inflight' = [inflight EXCEPT ![s] = Idle]

\* The Chat page of u1 with the fetches of its selections in flight, while
\* u2 writes into both chats.
NextFetchRace ==
    \/ \E s \in Slots, c \in ChatIds : ChatSelectStart(s, "u1", c)
    \/ \E s \in Slots : FetchMessagesDone(s)
    \/ \E c \in ChatIds : ChatSelect("u2", c)
    \/ Len(dbMessages) < MaxMessages /\ SendMessage("u2", "hi", << >>, TRUE)
    \/ Tick

SpecFetchRace == Init /\ [][NextFetchRace]_vars

\* ================================================================ claims

\* C1: createTask is refused with "Limit Reached", and inserts no row, if
\* and only if the caller's task list holds 3 or more active tasks when it
\* is called; with fewer than 3 the call goes on to the insert.
C1_LimitIff ==
    [][\A title \in Titles :
         CreateTask("u1", title) =>
           /\ (last'.toast = "Limit Reached") <=> (ActiveCount(tasks["u1"]) >= 3)
           /\ last'.toast = "Limit Reached" => dbTasks' = dbTasks /\ tasks' = tasks
           /\ ActiveCount(tasks["u1"]) < 3 =>
                \/ /\ last'.toast = "Task Created"
                   /\ Len(dbTasks') = Len(dbTasks) + 1
                \/ /\ last'.toast = "Error"
                   /\ dbTasks' = dbTasks]_vars

\* a refusal with three active tasks and a cancelled one in the list
C1_Witness ==
    /\ last.toast = "Limit Reached"
    /\ ActiveCount(tasks["u1"]) = 3
    /\ Len(dbTasks) = 4

\* the applications of u for t
AppsOf(apps, t, u) ==
    {a \in DOMAIN apps : apps[a].task_id = t /\ apps[a].applicant_id = u}

\* C2: apply calls run one after another.  Once the store holds an
\* application of u for t, every apply of u for t inserts nothing and ends
\* "Already Applied" (or "Error", when the existence check itself fails); an
\* apply for a pair without an application inserts exactly one pending
\* application (or none, with "Error", when a store call fails).
C2_ApplyOnce ==
    [][\A u \in Users, t \in TaskIds :
         ApplyForTask(u, t) =>
           IF AppsOf(dbApps, t, u) # {}
           THEN /\ dbApps' = dbApps
                /\ last'.toast \in {"Already Applied", "Error"}
                /\ faults' = faults => last'.toast = "Already Applied"
           ELSE \/ /\ last'.toast = "Application Submitted"
                   /\ dbApps' = Append(dbApps,
                         [task_id |-> t, applicant_id |-> u, status |-> "pending"])
                   /\ Cardinality(AppsOf(dbApps', t, u)) = 1
                \/ /\ last'.toast = "Error"
                   /\ faults' # faults
                   /\ dbApps' = dbApps]_vars

\* a refused second application while another user has applied to the task
C2_Witness ==
    /\ last.toast = "Already Applied"
    /\ \E a \in AppIds, b \in AppIds :
         /\ dbApps[a].task_id = dbApps[b].task_id
         /\ dbApps[a].applicant_id # dbApps[b].applicant_id

\* C3: after an approve of application a of task t whose three writes all
\* succeed, a is the one approved application of t, every other application
\* of t is rejected whatever it was before, and the applications of other
\* tasks are as before.
C3_ApproveOne ==
    [][\A u \in Users, a \in AppIds, rc \in Codes, dc \in Codes :
         (ApproveApplication(u, a, rc, dc) /\ last'.toast = "Application Approved") =>
           LET t == dbApps[a].task_id
           IN /\ DOMAIN dbApps' = DOMAIN dbApps
              /\ \A b \in AppIds :
                   IF dbApps[b].task_id = t
                   THEN dbApps'[b] = [dbApps[b] EXCEPT
                                        !.status = IF b = a THEN "approved" ELSE "rejected"]
                   ELSE dbApps'[b] = dbApps[b]
              /\ {b \in AppIds : dbApps'[b].task_id = t /\ dbApps'[b].status = "approved"}
                   = {a}]_vars

\* an approved application, a rejected sibling and an application of the
\* other task that is still pending
C3_Witness ==
    /\ last.toast = "Application Approved"
    /\ \E a \in AppIds, b \in AppIds, c \in AppIds :
         /\ a # b
         /\ dbApps[a].task_id = dbApps[b].task_id
         /\ dbApps[c].task_id # dbApps[a].task_id
         /\ dbApps[a].status = "approved"
         /\ dbApps[b].status = "rejected"
         /\ dbApps[c].status = "pending"

\* the fields of a task row that approve writes, as approve writes them
Assigned(row, applicantId, requestorCode, doerCode) ==
    /\ row.doer_id = applicantId
    /\ row.requestor_verification_code = requestorCode
    /\ row.doer_verification_code = doerCode
    /\ ~row.is_requestor_verified /\ ~row.is_doer_verified
    /\ ~row.is_requestor_rated /\ ~row.is_doer_rated

\* C4: an approve whose task update succeeds leaves the task with doer_id
\* the applicant, both codes set and the four flags false, whatever they
\* were, also when a later write of the call fails; the other columns and
\* the other rows are untouched; and in no state has a task a doer without
\* both codes.
C4_AssignAtOnce ==
    /\ [](\A t \in TaskIds :
            dbTasks[t].doer_id # None =>
              /\ dbTasks[t].requestor_verification_code \in Codes
              /\ dbTasks[t].doer_verification_code \in Codes)
    /\ [][\A u \in Users, a \in AppIds, rc \in Codes, dc \in Codes :
            ApproveApplication(u, a, rc, dc) =>
              LET t == dbApps[a].task_id
              IN /\ \/ dbTasks' = dbTasks /\ last'.toast = "Error"
                    \/ /\ Assigned(dbTasks'[t], dbApps[a].applicant_id, rc, dc)
                       /\ dbTasks'[t].status = dbTasks[t].status
                       /\ dbTasks'[t].creator_id = dbTasks[t].creator_id
                       /\ dbTasks'[t].title = dbTasks[t].title
                       /\ \A o \in TaskIds \ {t} : dbTasks'[o] = dbTasks[o]
                 /\ last'.toast = "Application Approved" =>
                       Assigned(dbTasks'[t], dbApps[a].applicant_id, rc, dc)]_vars

\* an approve of a task that the doer's list still shows as verified by
\* both: the flags were set and the approve cleared them
C4_Witness ==
    /\ last.toast = "Application Approved"
    /\ \E t \in TaskIds :
         /\ Assigned(dbTasks[t], "u2", dbTasks[t].requestor_verification_code,
                     dbTasks[t].doer_verification_code)
         /\ t \in DOMAIN appliedTasks["u2"]
         /\ appliedTasks["u2"][t].isDoerVerified
         /\ appliedTasks["u2"][t].isRequestorVerified

\* C5: after every approve the two codes of the task are non-empty and
\* differ from each other.
C5_DistinctCodes ==
    \A t \in TaskIds :
        dbTasks[t].doer_id # None =>
          /\ dbTasks[t].requestor_verification_code # None
          /\ dbTasks[t].doer_verification_code # None
          /\ dbTasks[t].requestor_verification_code # dbTasks[t].doer_verification_code

\* the row with one column set
WithFlag(row, flag) == [row EXCEPT ![flag] = TRUE]

\* C6: verification is cross-wise and writes the caller's own flag alone.
\* A caller whose list has the task with another doer (the requestor)
\* succeeds exactly when the code is the task's doerVerificationCode, and
\* the one write sets is_requestor_verified; a caller who is the doer
\* succeeds exactly when the code is the requestorVerificationCode, and the
\* one write sets is_doer_verified.  (A store error ends the call with
\* "Error" instead.)
C6_CrossWise ==
    [][\A u \in Users, t \in TaskIds, code \in Codes :
         (VerifyCode(u, t, code) /\ HasTask(u, t)) =>
           LET task == FindTask(u, t)
               doer == task.doerId = u
               expected == IF doer THEN task.requestorVerificationCode
                           ELSE task.doerVerificationCode
               own == IF doer THEN "is_doer_verified" ELSE "is_requestor_verified"
           IN /\ last'.ret = "true" =>
                   /\ code = expected
                   /\ dbTasks' = [dbTasks EXCEPT ![t] = WithFlag(@, own)]
              /\ (code = expected /\ faults' = faults) => last'.ret = "true"
              /\ dbTasks' \in {dbTasks, [dbTasks EXCEPT ![t] = WithFlag(@, own)]}
              /\ UNCHANGED <<dbApps, dbProfiles>>]_vars

\* the requestor has verified with the doer's code, which differs from its
\* own, and the doer has not
C6_Witness ==
    /\ last = Result("true", None)
    /\ \E t \in TaskIds :
         /\ dbTasks[t].is_requestor_verified
         /\ ~dbTasks[t].is_doer_verified
         /\ dbTasks[t].requestor_verification_code # dbTasks[t].doer_verification_code
         /\ t \in DOMAIN tasks["u1"]
         /\ tasks["u1"][t].doerVerificationCode = dbTasks[t].doer_verification_code

\* C7: a verifyCode call with a code other than the expected counterparty
\* code returns false, writes nothing to the store, leaves the lists as
\* they are and raises no toast.
C7_MismatchIsQuiet ==
    [][\A u \in Users, t \in TaskIds, code \in Codes :
         (/\ VerifyCode(u, t, code)
          /\ HasTask(u, t)
          /\ code # (IF FindTask(u, t).doerId = u
                     THEN FindTask(u, t).requestorVerificationCode
                     ELSE FindTask(u, t).doerVerificationCode)) =>
           /\ last' = Result("false", None)
           /\ UNCHANGED <<dbVars, localVars, faults>>]_vars

\* a refused code on a task that has its two codes, one side verified
C7_Witness ==
    /\ last = Result("false", None)
    /\ \E t \in TaskIds :
         /\ dbTasks[t].doer_id = "u2"
         /\ dbTasks[t].is_doer_verified
         /\ ~dbTasks[t].is_requestor_verified

\* C8: in every reachable state a task is completed if and only if both
\* its rated flags are true.
C8_CompletedIffRated ==
    \A t \in TaskIds :
        dbTasks[t].status = "completed" <=>
            (dbTasks[t].is_requestor_rated /\ dbTasks[t].is_doer_rated)

\* C8 as the code has it: the equivalence is the one submitRating decides
\* by.  A submitRating call that completes a task has left both rated flags
\* true, and a call whose store calls all succeed leaves the task completed
\* exactly when it was completed before or both rated flags are now true.
\* (cancelTask completes a task whatever its flags, and approve clears the
\* flags of a task whatever its status, so the equivalence is not one of
\* the states.)
C8_RatingCompletes ==
    [][\A u \in Users, t \in TaskIds, rating \in Ratings :
         (last'.toast = "Rating Submitted" /\ HasTask(u, t)
            /\ SubmitRating(u, t, rating)) =>
           /\ (dbTasks[t].status = "active" /\ dbTasks'[t].status = "completed") =>
                 (dbTasks'[t].is_requestor_rated /\ dbTasks'[t].is_doer_rated)
           /\ faults' = faults =>
                 (dbTasks'[t].status = "completed" <=>
                    \/ dbTasks[t].status = "completed"
                    \/ dbTasks'[t].is_requestor_rated /\ dbTasks'[t].is_doer_rated)]_vars

\* the second rating has completed the task
C8_Witness ==
    /\ last.toast = "Rating Submitted"
    /\ \E t \in TaskIds :
         /\ dbTasks[t].status = "completed"
         /\ dbTasks[t].is_requestor_rated
         /\ dbTasks[t].is_doer_rated
         /\ dbProfiles[dbTasks[t].creator_id].requestor_rating # 0
         /\ dbProfiles[dbTasks[t].doer_id].doer_rating # 0

\* C9: the status of a task changes only from active to completed, and
\* only in a cancelTask of that task or in a submitRating of that task that
\* leaves both rated flags true; create, edit, apply, approve, reject and
\* verifyCode leave every status as it is.
C9_StatusSteps ==
    [][\A t \in TaskIds :
         dbTasks'[t].status # dbTasks[t].status =>
           /\ dbTasks[t].status = "active"
           /\ dbTasks'[t].status = "completed"
           /\ \/ \E u \in Users : CancelTask(u, t) /\ last'.toast = "Task Cancelled"
              \/ /\ \E u \in Users, rating \in Ratings : SubmitRating(u, t, rating)
                 /\ dbTasks'[t].is_requestor_rated
                 /\ dbTasks'[t].is_doer_rated]_vars

\* a task with a doer and a pending rating has been cancelled
C9_Witness ==
    /\ last.toast = "Task Cancelled"
    /\ \E t \in TaskIds :
         /\ dbTasks[t].status = "completed"
         /\ dbTasks[t].doer_id # None
         /\ dbTasks[t].is_doer_rated
         /\ ~dbTasks[t].is_requestor_rated

\* C10: submitRating writes the submitted value to the counterparty's
\* profile column and sets the caller's own rated flag alone.  The caller's
\* profile and the other rated flag are never written; a call whose store
\* calls all succeed leaves, for a doer, requestor_rating of the creator's
\* profile equal to the rating and is_doer_rated true, and for any other
\* caller doer_rating of the doer's profile equal to the rating (when the
\* task has a doer) and is_requestor_rated true; no other profile column
\* changes.
C10_RatesCounterparty ==
    [][\A u \in Users, t \in TaskIds, rating \in Ratings :
         (SubmitRating(u, t, rating) /\ HasTask(u, t)) =>
           LET task == FindTask(u, t)
               doer == task.doerId = u
               whom == IF doer THEN task.creatorId ELSE task.doerId
               written == IF ~(whom \in Users) THEN dbProfiles
                          ELSE IF doer
                          THEN [dbProfiles EXCEPT ![whom].requestor_rating = rating]
                          ELSE [dbProfiles EXCEPT ![whom].doer_rating = rating]
           IN /\ dbProfiles'[u] = dbProfiles[u]
              /\ dbProfiles' \in {dbProfiles, written}
              /\ IF doer
                 THEN dbTasks'[t].is_requestor_rated = dbTasks[t].is_requestor_rated
                 ELSE dbTasks'[t].is_doer_rated = dbTasks[t].is_doer_rated
              /\ faults' = faults =>
                   /\ dbProfiles' = written
                   /\ IF doer THEN dbTasks'[t].is_doer_rated
                      ELSE dbTasks'[t].is_requestor_rated]_vars

\* both sides have rated, with different values, and a later rating has
\* replaced an earlier one
C10_Witness ==
    /\ last.toast = "Rating Submitted"
    /\ dbProfiles["u1"].requestor_rating = 4
    /\ dbProfiles["u1"].doer_rating = 0
    /\ dbProfiles["u2"].doer_rating = 5
    /\ dbProfiles["u2"].requestor_rating = 0

\* the rated flag of the caller's role, as the store has it
OwnRated(u, t) ==
    IF FindTask(u, t).doerId = u THEN dbTasks[t].is_doer_rated
    ELSE dbTasks[t].is_requestor_rated

\* the profile column a rating of the caller goes to, or 0 when the task of
\* the caller's list has no counterparty
RatingOf(profiles, u, t) ==
    LET task == FindTask(u, t)
    IN IF task.doerId = u THEN profiles[task.creatorId].requestor_rating
       ELSE IF task.doerId \in Users THEN profiles[task.doerId].doer_rating
       ELSE 0

\* C11: a submitRating for a role whose rated flag is already true, all
\* its store calls succeeding, reports success, stores the new value and
\* leaves both rated flags and the status of the task as they were.
C11_RepeatChangesNothingElse ==
    [][\A u \in Users, t \in TaskIds, rating \in Ratings :
         (/\ last'.toast = "Rating Submitted" /\ HasTask(u, t) /\ OwnRated(u, t)
          /\ faults' = faults
          /\ SubmitRating(u, t, rating)) =>
           /\ last' = Result("true", "Rating Submitted")
           /\ dbTasks'[t].is_requestor_rated = dbTasks[t].is_requestor_rated
           /\ dbTasks'[t].is_doer_rated = dbTasks[t].is_doer_rated
           /\ dbTasks'[t].status = dbTasks[t].status]_vars

\* C11 as the code has it: the repeated call reports success and leaves
\* both rated flags as they were; when its store calls all succeed the
\* counterparty's column holds the new value, and the status is as it was
\* unless the task is still active with both rated flags true (the write of
\* the status failed in the call that set the second flag): then the
\* repeated call completes the task.
C11_RepeatRating ==
    [][\A u \in Users, t \in TaskIds, rating \in Ratings :
         (/\ last'.toast = "Rating Submitted" /\ HasTask(u, t) /\ OwnRated(u, t)
          /\ SubmitRating(u, t, rating)) =>
           /\ last' = Result("true", "Rating Submitted")
           /\ dbTasks'[t].is_requestor_rated = dbTasks[t].is_requestor_rated
           /\ dbTasks'[t].is_doer_rated = dbTasks[t].is_doer_rated
           /\ IF /\ dbTasks[t].status = "active"
                 /\ dbTasks[t].is_requestor_rated /\ dbTasks[t].is_doer_rated
              THEN faults' = faults => dbTasks'[t].status = "completed"
              ELSE dbTasks'[t].status = dbTasks[t].status
           /\ (faults' = faults /\ FindTask(u, t).doerId \in Users) =>
                 RatingOf(dbProfiles', u, t) = rating]_vars

\* the status write of the second rating failed and a repeated rating has
\* completed the task
C11_Witness ==
    /\ last.toast = "Rating Submitted"
    /\ faults = 0
    /\ \E t \in TaskIds :
         /\ dbTasks[t].status = "completed"
         /\ dbTasks[t].is_requestor_rated /\ dbTasks[t].is_doer_rated
         /\ t \in DOMAIN tasks["u1"] /\ tasks["u1"][t].status = "completed"
         /\ t \in DOMAIN appliedTasks["u2"] /\ appliedTasks["u2"][t].status = "active"
         /\ dbProfiles["u1"].requestor_rating = 4
         /\ dbProfiles["u2"].doer_rating = 5

\* the run has come to its end without a failed store call
ScenarioDone ==
    /\ faults = MaxFaults
    /\ dbTasks # <<>>
    /\ dbTasks[1].status = "completed"

\* C12: the end-to-end run ends with the task completed, doer_rating = 4 on
\* the creator's profile and requestor_rating = 5 on the profile of the
\* doer's counterpart, the creator.
C12_EndAsStated ==
    ScenarioDone =>
        /\ dbProfiles["u1"].doer_rating = 4
        /\ dbProfiles["u1"].requestor_rating = 5

\* C12 as the code has it: in the run the doer verifies first (then
\* is_doer_verified is true and is_requestor_verified false), ratings come
\* after both verifications, and the run ends with the task completed, both
\* flags of each kind true, the creator's rating 5 in doer_rating of the
\* doer's profile and the doer's rating 4 in requestor_rating of the
\* creator's profile; the two other columns are never written.
C12_EndToEnd ==
    /\ \A t \in TaskIds :
         /\ dbTasks[t].is_requestor_verified => dbTasks[t].is_doer_verified
         /\ (dbTasks[t].is_requestor_rated \/ dbTasks[t].is_doer_rated) =>
               Verified(dbTasks[t])
         /\ dbTasks[t].status = "completed" =>
               dbTasks[t].is_requestor_rated /\ dbTasks[t].is_doer_rated
    /\ dbProfiles["u1"].doer_rating = 0 /\ dbProfiles["u2"].requestor_rating = 0
    /\ ScenarioDone =>
         /\ dbTasks[1].doer_id = "u2"
         /\ dbProfiles["u2"].doer_rating = 5
         /\ dbProfiles["u1"].requestor_rating = 4

\* the end of the run, with two different codes
C12_Witness ==
    /\ ScenarioDone
    /\ last = Result("true", "Rating Submitted")
    /\ Verified(dbTasks[1])
    /\ dbTasks[1].requestor_verification_code = "c1"
    /\ dbTasks[1].doer_verification_code = "c2"
    /\ dbProfiles["u2"].doer_rating = 5
    /\ dbProfiles["u1"].requestor_rating = 4

\* C13: a cancelTask that reaches the store sets the status of the task to
\* completed whatever its doer, verified and rated columns are, and changes
\* no other column, no other row and no other table; on a task that is
\* completed already it changes nothing, so a second call leaves the store
\* as the first one did.  (A failed store call changes nothing.)
C13_CancelSetsStatusOnly ==
    [][\A u \in Users, t \in TaskIds :
         CancelTask(u, t) =>
           /\ UNCHANGED <<dbApps, dbProfiles>>
           /\ last'.toast = "Task Cancelled" =>
                 dbTasks' = [dbTasks EXCEPT ![t].status = "completed"]
           /\ last'.toast # "Task Cancelled" =>
                 dbTasks' = dbTasks /\ last'.toast = "Error"
           /\ dbTasks[t].status = "completed" => dbTasks' = dbTasks]_vars

\* a task with a doer, verified by both and rated by one, has been
\* cancelled
C13_Witness ==
    /\ last.toast = "Task Cancelled"
    /\ \E t \in TaskIds :
         /\ dbTasks[t].status = "completed"
         /\ dbTasks[t].doer_id = "u2"
         /\ dbTasks[t].is_requestor_verified /\ dbTasks[t].is_doer_verified
         /\ dbTasks[t].is_requestor_rated /\ ~dbTasks[t].is_doer_rated

\* the columns of a task row that follow its life
Lifecycle(row) ==
    <<row.status, row.doer_id, row.requestor_verification_code,
      row.doer_verification_code, row.is_requestor_verified,
      row.is_doer_verified, row.is_requestor_rated, row.is_doer_rated>>

\* the same fields of a task object of a list
LifecycleLocal(task) ==
    <<task.status, task.doerId, task.requestorVerificationCode,
      task.doerVerificationCode, task.isRequestorVerified,
      task.isDoerVerified, task.isRequestorRated, task.isDoerRated>>

\* the objects editTask is given in a state
EditInputs(u, t) ==
    {Edited(held, title) : held \in {tasks[u][t], AsCreated(t)}, title \in Titles}

\* C14: editTask leaves status, doer, codes, verified and rated flags as
\* they were, in the row of the store and in the task of the caller's
\* list, whatever object it is given.
C14_EditKeepsLifecycle ==
    [][\A t \in TaskIds :
         t \in DOMAIN tasks["u1"] =>
           \A updatedTask \in EditInputs("u1", t) :
              EditTask("u1", t, updatedTask) =>
                /\ Lifecycle(dbTasks'[t]) = Lifecycle(dbTasks[t])
                /\ LifecycleLocal(tasks'["u1"][t]) = LifecycleLocal(tasks["u1"][t])]_vars

\* C15: in every reachable state a task has a doer only if an application
\* of that applicant for that task has status approved.
C15_DoerHasApprovedApplication ==
    \A t \in TaskIds :
        dbTasks[t].doer_id # None =>
            \E a \in AppsOf(dbApps, t, dbTasks[t].doer_id) :
                dbApps[a].status = "approved"

\* the verified flag of the caller's role, as the store has it
OwnVerified(u, t) ==
    IF FindTask(u, t).doerId = u THEN dbTasks[t].is_doer_verified
    ELSE dbTasks[t].is_requestor_verified

\* the code the store has for the caller to present
CounterpartyCode(u, t) ==
    IF dbTasks[t].doer_id = u THEN dbTasks[t].requestor_verification_code
    ELSE dbTasks[t].doer_verification_code

\* C16: a code is accepted once.  Right after a verifyCode that returned
\* true, a caller whose verified flag is set, its code having been
\* accepted, and who presents that code for the task again, is not
\* accepted again.
C16_SingleUse ==
    [][\A u \in Users, t \in TaskIds, code \in Codes :
         (/\ last = Result("true", None)
          /\ HasTask(u, t) /\ OwnVerified(u, t)
          /\ code = CounterpartyCode(u, t)
          /\ VerifyCode(u, t, code)) =>
           last'.ret # "true"]_vars

\* C17: ratings are taken after verification only.  A submitRating that
\* sets a rated flag or completes the task is one on a task that has a
\* doer and both verified flags true.
C17_RatingAfterVerification ==
    [][\A u \in Users, t \in TaskIds, rating \in Ratings :
         (/\ last'.toast = "Rating Submitted" /\ HasTask(u, t)
          /\ \/ dbTasks'[t].is_requestor_rated # dbTasks[t].is_requestor_rated
             \/ dbTasks'[t].is_doer_rated # dbTasks[t].is_doer_rated
             \/ dbTasks'[t].status # dbTasks[t].status
          /\ SubmitRating(u, t, rating)) =>
           /\ dbTasks[t].doer_id # None
           /\ dbTasks[t].is_requestor_verified
           /\ dbTasks[t].is_doer_verified]_vars

\* C18: a message sent with attachment descriptor d is fetched, at any
\* later time, with an attachment whose id, name, type, url and size equal
\* d, whether the row has the structured column or the denormalized
\* columns alone.
C18_AttachmentRoundTrip ==
    [][\A u \in Pair, d \in Descriptors(now), structured \in BOOLEAN :
         (/\ SendMessage(u, "hi", <<d>>, structured)
          /\ Len(dbMessages') = Len(dbMessages) + 1) =>
           \A n \in now..MaxNow :
              Attachment(dbMessages'[Len(dbMessages')], n) = <<d>>]_vars

\* C19: approve has no rollback.  An approve in which a store call fails
\* reports "Error" and no success, and leaves the caller's lists as they
\* were; the store keeps the writes made before the failure: nothing when
\* the task update failed, the assigned task with the applications as they
\* were when the second write failed, the assigned task and the chosen
\* application approved with its siblings as they were when the third
\* failed.
C19_NoRollback ==
    [][\A u \in Users, a \in AppIds, rc \in Codes, dc \in Codes :
         (ApproveApplication(u, a, rc, dc) /\ faults' # faults) =>
           LET t == dbApps[a].task_id
               assigned ==
                  /\ Assigned(dbTasks'[t], dbApps[a].applicant_id, rc, dc)
                  /\ \A o \in TaskIds \ {t} : dbTasks'[o] = dbTasks[o]
           IN /\ last' = Result("undefined", "Error")
              /\ UNCHANGED <<localVars, dbProfiles>>
              /\ \/ dbTasks' = dbTasks /\ dbApps' = dbApps
                 \/ assigned /\ dbApps' = dbApps
                 \/ assigned /\ dbApps' = [dbApps EXCEPT ![a].status = "approved"]]_vars

\* the third write failed: the task is assigned and the chosen application
\* approved while a sibling is still pending and the creator's lists show
\* neither
C19_Witness ==
    /\ last.toast = "Error"
    /\ faults = 0
    /\ \E a \in AppIds, b \in AppIds :
         LET t == dbApps[a].task_id
         IN /\ a # b /\ dbApps[b].task_id = t
            /\ dbTasks[t].doer_id = dbApps[a].applicant_id
            /\ dbApps[a].status = "approved"
            /\ dbApps[b].status = "pending"
            /\ t \in DOMAIN tasks[dbTasks[t].creator_id]
            /\ tasks[dbTasks[t].creator_id][t].doerId = None
            /\ a \in DOMAIN applications[dbTasks[t].creator_id]
            /\ applications[dbTasks[t].creator_id][a] = "pending"

\* C20: verifyCode changes no status, doer, code or rated flag of any task
\* and no application or profile, whatever it returns; a task verified by
\* both parties is as active as it was before.
C20_VerifyKeepsStatus ==
    [][\A u \in Users, t \in TaskIds, code \in Codes :
         VerifyCode(u, t, code) =>
           /\ \A o \in TaskIds :
                /\ dbTasks'[o].status = dbTasks[o].status
                /\ dbTasks'[o].doer_id = dbTasks[o].doer_id
                /\ dbTasks'[o].requestor_verification_code =
                      dbTasks[o].requestor_verification_code
                /\ dbTasks'[o].doer_verification_code =
                      dbTasks[o].doer_verification_code
                /\ dbTasks'[o].is_requestor_rated = dbTasks[o].is_requestor_rated
                /\ dbTasks'[o].is_doer_rated = dbTasks[o].is_doer_rated
           /\ Len(dbTasks') = Len(dbTasks)
           /\ UNCHANGED <<dbApps, dbProfiles>>]_vars

\* the second party has verified and the task, rated by one party, is
\* still active
C20_Witness ==
    /\ last = Result("true", None)
    /\ \E t \in TaskIds :
         /\ Verified(dbTasks[t])
         /\ dbTasks[t].status = "active"
         /\ dbTasks[t].is_requestor_rated /\ ~dbTasks[t].is_doer_rated
         /\ t \in DOMAIN appliedTasks["u2"]
         /\ appliedTasks["u2"][t].isDoerVerified

\* C21: the verification state of a task only moves forward.  In every
\* step a verified flag that is true stays true, and a task that has a doer
\* keeps its doer and its two codes.
C21_VerificationMovesForward ==
    [][\A t \in TaskIds :
         /\ dbTasks[t].is_requestor_verified => dbTasks'[t].is_requestor_verified
         /\ dbTasks[t].is_doer_verified => dbTasks'[t].is_doer_verified
         /\ dbTasks[t].doer_id # None =>
              /\ dbTasks'[t].doer_id = dbTasks[t].doer_id
              /\ dbTasks'[t].requestor_verification_code =
                    dbTasks[t].requestor_verification_code
              /\ dbTasks'[t].doer_verification_code =
                    dbTasks[t].doer_verification_code]_vars

\* C22: the existence check and the insert of an apply call are two requests
\* with nothing in between. A call passes its check only when the store
\* holds no application of its user for its task at that moment, and a call
\* that passed inserts its row when its turn comes (unless the insert itself
\* fails), whatever the table holds by then.  Two calls of one user for one
\* task that both check before either inserts leave two rows for the pair.
C22_CheckThenInsert ==
    [][\A s \in Slots :
         /\ (inflight[s] = Idle /\ inflight'[s] # Idle) =>
               AppsOf(dbApps, inflight'[s].task, inflight'[s].user) = {}
         /\ (inflight[s] # Idle /\ inflight'[s] = Idle /\ faults' = faults) =>
               /\ dbApps' = Append(dbApps, NewApplication(inflight[s].task,
                                                          inflight[s].user))
               /\ last'.toast = "Application Submitted"]_vars

C22_Witness ==
    \E t \in TaskIds, u \in Users :
      /\ Cardinality(AppsOf(dbApps, t, u)) = 2
      /\ \A s \in Slots : inflight[s] = Idle
      /\ last.toast = "Application Submitted"

\* C23: whenever a request that a handler makes to the store reports an
\* error, the handler ends with the error notification and reports no
\* success.
C23_FailureSurfaces ==
    [][faults' # faults => last'.toast = "Error" /\ last'.ret # "true"]_vars

\* C24: ChatBox.handleSendMessage appends the optimistic message (a
\* temporary id, the isOptimistic marker, the viewer as sender) to the local
\* list before the insert has added a row, and the answer of the insert,
\* success or error, leaves the local list as it was: the entry stays.
C24_OptimisticFirst ==
    [][\A s \in Slots :
         /\ (inflight[s] = Idle /\ inflight'[s].op = "send") =>
              LET u == inflight'[s].user
                  list == localMessages'[u]
                  m == list[Len(list)]
              IN /\ Len(list) = Len(localMessages[u]) + 1
                 /\ SubSeq(list, 1, Len(list) - 1) = localMessages[u]
                 /\ IsOptimistic(m)
                 /\ m.id = TempId(now)
                 /\ m.senderId = u
                 /\ m.content = inflight'[s].content
                 /\ Len(dbMessages') = Len(dbMessages)
         /\ (inflight[s].op = "send" /\ inflight'[s] = Idle) =>
              localMessages' = localMessages]_vars

C24_Witness ==
    /\ \A s \in Slots : inflight[s] = Idle
    /\ \E k \in DOMAIN localMessages["u1"] : IsOptimistic(localMessages["u1"][k])
    /\ \A i \in DOMAIN dbMessages : dbMessages[i].sender_id # "u1"
    /\ last.toast = "Error"

C26_PushPrecedence ==
    [][\A u \in Pair :
         (/\ delivered'[u].box = delivered[u].box + 1
          /\ dbMessages[delivered'[u].box].sender_id # u) =>
           LET row == dbMessages[delivered'[u].box]
               list == localMessages'[u]
               attachment == list[Len(list)].attachment
           IN IF row.attachment.kind = "object"
              THEN /\ attachment # << >>
                   /\ attachment[1].url = row.attachment.value.url
              ELSE IF ~(row.attachment_url \in {None, ""})
              THEN /\ attachment # << >>
                   /\ attachment[1].url = row.attachment_url
                   /\ attachment[1].name = row.attachment_name
                   /\ attachment[1].type = row.attachment_type
                   /\ attachment[1].size = row.attachment_size
              ELSE attachment = << >>]_vars

\* C27: u1 views the chat.  Whenever the local list of u1 changes, every
\* message of the new list that u1 did not send and that is not read is in
\* the update that sets read = true: unless that update fails, its row is
\* read afterwards.  No step of u1's client sets read on a row that u1 sent.
C27_MarksOthersOnly ==
    [][/\ (localMessages'["u1"] # localMessages["u1"] /\ faults' = faults) =>
            \A k \in DOMAIN localMessages'["u1"] :
               LET m == localMessages'["u1"][k]
               IN (m.senderId # "u1" /\ ~m.read) => dbMessages'[m.id].read
       /\ \A i \in DOMAIN dbMessages' :
            dbMessages'[i].sender_id = "u1" => ~dbMessages'[i].read]_vars

C27_Witness ==
    LET list == localMessages["u1"]
    IN \E k \in DOMAIN list, j \in DOMAIN list :
         /\ list[k].senderId = "u1" /\ ~IsOptimistic(list[k])
         /\ ~dbMessages[list[k].id].read
         /\ list[j].senderId = "u2" /\ ~list[j].read
         /\ dbMessages[list[j].id].read

\* C28: over send, fetch, push and mark-read steps, table messages only
\* grows, and a row that exists changes in nothing but its read column,
\* which goes from false to true and never back.
C28_RowsOnlyRead ==
    [][/\ Len(dbMessages') >= Len(dbMessages)
       /\ \A i \in DOMAIN dbMessages :
            /\ dbMessages[i].read => dbMessages'[i].read
            /\ [dbMessages'[i] EXCEPT !.read = dbMessages[i].read] = dbMessages[i]]_vars

C28_Witness ==
    \E i \in DOMAIN dbMessages :
      /\ dbMessages[i].read
      /\ dbMessages[i].content = "hi"
      /\ dbMessages[i].attachment_url = "url"
      /\ \E k \in DOMAIN localMessages["u1"] : localMessages["u1"][k].id = i

\* C29: handleFileChange sets the pending attachment only when the size
\* check, the bucket listing, the bucket lookup, the upload and the public
\* URL all succeeded.  A file over the ceiling ends in "File too large"
\* with the pending attachment and the uploading flag as they were; a
\* failure of any storage step ends in "Upload failed" with the pending
\* attachment as it was.  When the handler ends the uploading flag is false.
C29_NoPartialAttach ==
    [][\A s \in Slots :
         /\ \A file \in Files :
              (FileChange(s, "u1", file) /\ file.size > MAX_FILE_SIZE) =>
                /\ last'.toast = "File too large"
                /\ UNCHANGED <<filePreview, isUploading, inflight>>
         /\ \A outcome \in Outcomes :
              FileUploaded(s, outcome) =>
                /\ ~isUploading'["u1"]
                /\ IF outcome = "ok"
                   THEN /\ filePreview'["u1"] =
                             <<ToAttachment(inflight[s].file, now)>>
                        /\ inflight[s].file.size <= MAX_FILE_SIZE
                        /\ last'.toast = None
                   ELSE /\ filePreview'["u1"] = filePreview["u1"]
                        /\ last'.toast = "Upload failed"]_vars

C29_Witness ==
    /\ \A s \in Slots : inflight[s] = Idle
    /\ last.toast = "Upload failed"
    /\ ~isUploading["u1"]
    /\ filePreview["u1"] # << >>
    /\ filePreview["u1"][1].id < now

C31_StoreLimit ==
    \A u \in Users :
      Cardinality({t \in TaskIds : /\ dbTasks[t].creator_id = u
                                   /\ dbTasks[t].status = "active"})
        <= MaxActiveTasks

\* C32: completed is absorbing: no handler call takes a task whose status
\* in the store is completed to another status.
C32_CompletedAbsorbing ==
    [][\A t \in TaskIds :
         dbTasks[t].status = "completed" => dbTasks'[t].status = "completed"]_vars

C32_Witness ==
    /\ last.toast = "Application Approved"
    /\ \E t \in TaskIds : /\ dbTasks[t].status = "completed"
                          /\ dbTasks[t].doer_id # None

\* C33: approve calls may overlap.  When no call is awaiting the store and
\* no write has failed, a task that has a doer has exactly one approved
\* application, and that application is the doer's.
C33_OneApprovedIsDoer ==
    ((\A s \in Slots : inflight[s] = Idle) /\ faults = MaxFaults) =>
      \A t \in TaskIds :
        dbTasks[t].doer_id # None =>
          LET approved == {a \in AppIds : /\ dbApps[a].task_id = t
                                          /\ dbApps[a].status = "approved"}
          IN /\ Cardinality(approved) = 1
             /\ \A a \in approved : dbApps[a].applicant_id = dbTasks[t].doer_id

\* C34: both parties of a task rate it, each over a list that shows the
\* doer, with their store requests interleaved in any way.  When no call is
\* awaiting the store, no request has failed and both rated flags are set,
\* the task is completed: the call that wrote its flag last read both flags
\* set.
C34_BothRatedCompletes ==
    ((\A s \in Slots : inflight[s] = Idle) /\ faults = MaxFaults) =>
      \A t \in TaskIds :
        BothRated(dbTasks[t]) => dbTasks[t].status = "completed"

\* both calls read both flags set: each completed the task over its own list
C34_Witness ==
    /\ \A s \in Slots : inflight[s] = Idle
    /\ faults = MaxFaults
    /\ \E t \in TaskIds :
         /\ BothRated(dbTasks[t])
         /\ dbTasks[t].status = "completed"
         /\ t \in DOMAIN tasks["u1"] /\ tasks["u1"][t].status = "completed"
         /\ ~tasks["u1"][t].isRequestorRated
         /\ t \in DOMAIN appliedTasks["u2"]
         /\ appliedTasks["u2"][t].status = "completed"
         /\ ~appliedTasks["u2"][t].isDoerRated

\* C35: after a submitRating by a party of the task that returned true and
\* met no store error, the caller's task agrees with the row of the store on
\* the status and on the caller's own rated flag (so a call that completes
\* the task leaves it completed and rated by the caller in the local list).
C35_LocalAgrees ==
    [][\A u \in Pair, t \in TaskIds, rating \in Ratings :
         (/\ last'.toast = "Rating Submitted"
          /\ faults' = faults
          /\ HasTask(u, t)
          /\ FindTask(u, t).doerId = dbTasks[t].doer_id
          /\ u \in {dbTasks[t].creator_id, dbTasks[t].doer_id}
          /\ SubmitRating(u, t, rating)) =>
           LET local == IF t \in DOMAIN tasks'[u] THEN tasks'[u][t]
                        ELSE appliedTasks'[u][t]
           IN /\ local.status = dbTasks'[t].status
              /\ IF dbTasks[t].doer_id = u
                 THEN local.isDoerRated = dbTasks'[t].is_doer_rated
                 ELSE local.isRequestorRated = dbTasks'[t].is_requestor_rated]_vars

\* C36: a verifyCode by a party of the task whose lists were loaded after an
\* approval, meeting no store error, returns true exactly when the presented code is the counterparty code of the row
\* of the store, the role being decided by the doer_id of that row, also
\* after a later approval changed the doer or the codes.
C36_VerifiesAgainstStore ==
    [][\A u \in Pair, t \in TaskIds, code \in Codes :
         (/\ HasTask(u, t)
          /\ u \in {dbTasks[t].creator_id, dbTasks[t].doer_id}
          /\ dbTasks[t].doer_id # None
          /\ FindTask(u, t).doerId # None
          /\ faults' = faults
          /\ VerifyCode(u, t, code)) =>
             (last'.ret = "true" <=> code = CounterpartyCode(u, t))]_vars

\* C37: a submitRating that sets a rated flag of the row of the store has
\* written the rating to the profile of the counterparty: no flag is set
\* when the task has no doer, when the profile is missing or when the write
\* of the profile fails.
C37_RatedMeansWritten ==
    [][\A u \in Pair, t \in TaskIds, rating \in Ratings :
         (/\ HasTask(u, t)
          /\ SubmitRating(u, t, rating)
          /\ \/ ~dbTasks[t].is_requestor_rated /\ dbTasks'[t].is_requestor_rated
             \/ ~dbTasks[t].is_doer_rated /\ dbTasks'[t].is_doer_rated) =>
             LET currentTask == FindTask(u, t)
                 who == RatedProfile(currentTask, u)
             IN /\ who \in DOMAIN dbProfiles
                /\ dbProfiles' =
                     DbUpdate(dbProfiles, who, RatingField(currentTask, u, rating))]_vars

\* no send of u1 is in flight and both channels of u1 have handled every
\* INSERT event
Settled ==
    /\ \A s \in Slots : inflight[s] = Idle
    /\ delivered["u1"].box = Len(dbMessages)
    /\ delivered["u1"].page = Len(dbMessages)

\* C38: once the sends have settled, with the insert done or failed, and the
\* events and the fetches they start are handled, no entry of the local
\* message list is still marked isOptimistic.
C38_OptimisticResolved ==
    Settled =>
      \A i \in DOMAIN localMessages["u1"] : ~IsOptimistic(localMessages["u1"][i])

\* C39: the local message list of the ChatBox never holds the id of a row of
\* the store twice, whatever the order of the INSERT events and the fetches.
C39_NoDuplicateIds ==
    \A i, j \in DOMAIN localMessages["u1"] :
       (i # j /\ ~IsOptimistic(localMessages["u1"][i])) =>
          localMessages["u1"][i].id # localMessages["u1"][j].id

\* C40: with no fetchMessages in flight and no store request failed, every
\* message of the displayed list of u1 is a row of the chat u1 has active,
\* whatever the order in which the fetches of its selections were answered.
C40_DisplayedIsActive ==
    (/\ \A s \in Slots : inflight[s] = Idle
     /\ faults = MaxFaults) =>
       \A i \in DOMAIN messages["u1"] :
          dbMessages[messages["u1"][i].id].chat_id = activeChat["u1"]

====
